---- MODULE Spec2Model ----
(***************************************************************************)
(* Hybrid retrieval engine and Redis memoizing layer of the NASA space     *)
(* biology search service: src/search_engine.py, src/redis_cache.py and    *)
(* the POST /api/search handler of src/api_ai.py.                          *)
(*                                                                         *)
(* Units.  A similarity or a ts_rank is an integer number of 1e-5, a       *)
(* result score (the value after round(x, 4)) an integer number of 1e-4.   *)
(* A pmcid is a natural number, a query a sequence of characters.          *)
(***************************************************************************)
EXTENDS Integers, Sequences, FiniteSets, TLC

VARIABLES
    \* ---- search engine (src/search_engine.py)
    similarity,     \* pmcid -> 1 - (p.embedding <=> query vector), or NoVec
    ts_rank,        \* pmcid -> ts_rank of the document for the query, or NoMatch
    vector_order,   \* rows in the order the vector store gave them to the
                    \* last search(): rows of equal similarity come in any order
    spc,            \* position of the search caller: "idle" | "done"
    request,        \* arguments of the last search() call
    response,       \* dict returned by the last search() call
    store_calls,    \* calls the last search() issued, per collaborator
    \* ---- cache layer (src/redis_cache.py)
    REDIS_ENABLED,  \* the environment variable, read at construction
    _cache,         \* the global instance: "unset" | "enabled" | "disabled"
    redis_data,     \* the backend's entries: records [key, text, expire_at]
    now,            \* the clock, in half seconds
    ticks,          \* number of clock steps taken
    call,           \* the last call of a wrapped operation and its outcome
    \* ---- POST /api/search (src/api_ai.py)
    http,           \* the client's exchange: request, response, store calls
    \* ---- two calls of _generate_key
    key_calls,      \* <<first, second>>: arguments and outcome of each
    \* ---- RedisCache used directly: get, set, clear_pattern
    op,             \* the last operation on the cache and its outcome
    last_set,       \* key -> the last set() that stored an entry under it
    \* ---- search_with_graph_context (src/search_engine.py)
    gctx,           \* the last call: its arguments, the lookups it made in the
                    \* graph store and its outcome
    \* ---- the coroutine search(), one step per await (src/search_engine.py)
    task,           \* where the coroutine is, what each retriever has done
    \* ---- concurrent calls of one wrapped coroutine (src/redis_cache.py)
    callers,        \* caller -> where its async_wrapper is and what it got
    puts,           \* the values the backend has stored under the key
    last_put,       \* the last set() that reached the backend
    \* ---- EmbeddingsGenerator (src/embeddings_generator.py)
    embedding_dim,  \* the number of dimensions of the loaded model
    emb,            \* the last generate_embedding: its text and its vector
    \* ---- Neo4jClient and KnowledgeGraphAnalytics (src/neo4j_client.py,
    \*      src/neo4j_queries.py)
    graph,          \* the numbers of nodes of the graph store
    neo,            \* the last call of a statistics method and what it ran
    \* ---- SessionManager (src/session_manager.py)
    sessions,       \* the rows of table sessions
    messages,       \* the rows of table messages, in rowid order
    wall,           \* what datetime.utcnow() reads
    sop,            \* the last call of a SessionManager method and its result
    \* ---- two runs of _hybrid_search on the same lists (src/search_engine.py)
    twice,          \* the two lists and the pmcids each run returned
    \* ---- GenericRAGAssistant and its citation tracker (src/ai_generic_rag.py)
    cite            \* the tracker, and each question being answered

searchVars ==
    <<similarity, ts_rank, vector_order, spc, request, response, store_calls>>
cacheVars == <<REDIS_ENABLED, _cache, redis_data, now, ticks, call>>

storeVars == <<op, last_set>>

\* the variables of the parts added after the search engine, the wrappers,
\* the route and the key
engineVars == <<gctx, task>>
raceVars == <<callers, puts, last_put>>
embedVars == <<embedding_dim, emb>>
neoVars == <<graph, neo>>
sessVars == <<sessions, messages, wall, sop>>
lateVars == <<sessVars, twice, cite>>
baseVars ==
    <<searchVars, cacheVars, http, key_calls, storeVars, engineVars, raceVars,
      embedVars, neoVars>>
auxVars == <<storeVars, engineVars, raceVars, embedVars, neoVars, lateVars>>

vars == <<searchVars, cacheVars, http, key_calls, auxVars>>

-----------------------------------------------------------------------------
(* Bounds of the model *)

NDocs == 3
MaxLimit == 2
MaxOffset == 2

MaxTicks == 2
MaxPage == 2
MaxArgs == 1
MaxCallers == 2
MaxDim == 3
MaxTextLen == 10
MaxPad == 1
MaxNodes == 2
MaxRepeat == 2
MaxMessages == 2
MaxQuestions == 2

Docs == 1..NDocs
Limits == 1..MaxLimit
Offsets == 0..MaxOffset

\* Similarities and ranks the stores can hold and thresholds a caller passes
\* (1e-5 units): 0.3 is the default min_similarity and is also a similarity a
\* document can have; 0.69996 is below the 0.7 band but rounds to 0.7.
SimLevels == {30000, 69996}
MinSimilarities == {0, 30000}

\* ts_rank of a matching document (1e-5 units): the ranks of distinct
\* documents differ, the lexical order being that of the pmcids
DocRank(d) == 3040 * (NDocs + 1 - d) - 1

\* Queries: "", "a" and " a " are refused, " ab" is valid once stripped.
Queries == { <<>>, <<"a">>, <<" ", "a", " ">>, <<" ", "a", "b">> }

-----------------------------------------------------------------------------
(* Generic helpers *)

Min(a, b) == IF a <= b THEN a ELSE b

\* Python's seq[offset:offset + limit]
Slice(seq, offset, limit) ==
    SubSeq(seq, offset + 1, Min(offset + limit, Len(seq)))

\* Python's str.strip() on a sequence of characters
RECURSIVE LStrip(_)
LStrip(s) == IF s # <<>> /\ Head(s) = " " THEN LStrip(Tail(s)) ELSE s

RECURSIVE RStrip(_)
RStrip(s) ==
    IF s # <<>> /\ s[Len(s)] = " " THEN RStrip(SubSeq(s, 1, Len(s) - 1)) ELSE s

Strip(s) == RStrip(LStrip(s))

\* Python's round(n / d) to the nearest integer, ties to even
RoundHalfEven(n, d) ==
    LET q == n \div d
        r == n % d
    IN  IF 2 * r < d THEN q
        ELSE IF 2 * r > d THEN q + 1
        ELSE IF q % 2 = 0 THEN q ELSE q + 1

\* round(x, 4) of a value held in 1e-5 units, in 1e-4 units
Round4(x) == RoundHalfEven(x, 10)

-----------------------------------------------------------------------------
(* The stores' answers: SQL of _semantic_search and _fulltext_search *)

NoVec == -1
NoMatch == -2

\* ORDER BY val DESC over the rows of S, whose values differ
RECURSIVE OrderByDesc(_, _)
OrderByDesc(S, val) ==
    IF S = {} THEN <<>>
    ELSE LET d == CHOOSE x \in S :
                    \A y \in S : val[x] > val[y] \/ (val[x] = val[y] /\ x <= y)
         IN  <<d>> \o OrderByDesc(S \ {d}, val)

\* Every order ORDER BY val DESC can give the rows of S: SQL leaves the order
\* of rows of equal value open
RECURSIVE OrdersByDesc(_, _)
OrdersByDesc(S, val) ==
    IF S = {} THEN {<<>>}
    ELSE UNION { {<<d>> \o rest : rest \in OrdersByDesc(S \ {d}, val)} :
                 d \in {x \in S : \A y \in S : val[x] >= val[y]} }

\* the one of them that keeps rows of equal value in pmcid order
OrderByPmcid(sim) ==
    CHOOSE order \in OrdersByDesc({d \in Docs : sim[d] # NoVec}, sim) :
        \A i, j \in 1..Len(order) :
            (i < j /\ sim[order[i]] = sim[order[j]]) => order[i] < order[j]

\* the orders the vector store can give the rows that have an embedding
VectorOrders(sim) == OrdersByDesc({d \in Docs : sim[d] # NoVec}, sim)

\* faulty variant: a row whose similarity equals the threshold is kept
VectorQueryAtLeast(sim, order, min_similarity, limit, offset) ==
    LET Kept(d) == sim[d] >= min_similarity
    IN  Slice(SelectSeq(order, Kept), offset, limit)

\* WHERE p.embedding IS NOT NULL AND similarity > :min_similarity
\* ORDER BY similarity DESC LIMIT :limit OFFSET :offset, `order` being the
\* order the store gives the rows with an embedding
VectorQuery(sim, order, min_similarity, limit, offset) ==
    LET Kept(d) == sim[d] > min_similarity
    IN  Slice(SelectSeq(order, Kept), offset, limit)

\* faulty variant: every matching row from the offset on, without LIMIT
LexicalQueryUnlimited(rank, limit, offset) ==
    Slice(OrderByDesc({d \in Docs : rank[d] # NoMatch}, rank), offset, NDocs)

\* WHERE ... @@ to_tsquery(:tsquery) ORDER BY rank DESC LIMIT :limit OFFSET :offset
LexicalQuery(rank, limit, offset) ==
    Slice(OrderByDesc({d \in Docs : rank[d] # NoMatch}, rank), offset, limit)

MatchType(sim) == IF sim < 70000 THEN "similar" ELSE "highly_similar"

SearchResult(pmcid, score, search_method, match_type) ==
    [pmcid |-> pmcid, score |-> score, search_method |-> search_method,
     match_type |-> match_type]

_semantic_search(sim, order, limit, offset, min_similarity) ==
    LET rows == VectorQuery(sim, order, min_similarity, limit, offset)
    IN  [i \in 1..Len(rows) |->
            SearchResult(rows[i], Round4(sim[rows[i]]), "semantic",
                         MatchType(sim[rows[i]]))]

_fulltext_search(rank, limit, offset) ==
    LET rows == LexicalQuery(rank, limit, offset)
    IN  [i \in 1..Len(rows) |->
            SearchResult(rows[i], Round4(rank[rows[i]]), "fulltext",
                         "exact_match")]

-----------------------------------------------------------------------------
(* Reciprocal Rank Fusion: _hybrid_search *)

k == 60

\* 1-based position of pmcid in a result list, 0 when absent
RankOf(results, pmcid) ==
    IF \E i \in 1..Len(results) : results[i].pmcid = pmcid
    THEN CHOOSE i \in 1..Len(results) : results[i].pmcid = pmcid
    ELSE 0

\* faulty variant: the fulltext loop overwrites rrf_scores[pmcid] instead of adding
RrfSumOverwrite(semantic_results, fulltext_results, pmcid) ==
    LET rs == RankOf(semantic_results, pmcid)
        rf == RankOf(fulltext_results, pmcid)
    IN  IF rf > 0 THEN [num |-> 1, den |-> k + rf]
        ELSE IF rs > 0 THEN [num |-> 1, den |-> k + rs]
        ELSE [num |-> 0, den |-> 1]

\* rrf_scores[pmcid] as the exact fraction num/den
RrfSum(semantic_results, fulltext_results, pmcid) ==
    LET rs == RankOf(semantic_results, pmcid)
        rf == RankOf(fulltext_results, pmcid)
    IN  IF rs > 0 /\ rf > 0
        THEN [num |-> (k + rs) + (k + rf), den |-> (k + rs) * (k + rf)]
        ELSE IF rs > 0 THEN [num |-> 1, den |-> k + rs]
        ELSE IF rf > 0 THEN [num |-> 1, den |-> k + rf]
        ELSE [num |-> 0, den |-> 1]

\* round(rrf_scores[pmcid], 4), in 1e-4 units
RrfScore(semantic_results, fulltext_results, pmcid) ==
    LET s == RrfSum(semantic_results, fulltext_results, pmcid)
    IN  RoundHalfEven(10000 * s.num, s.den)

\* faulty variant: every row of semantic + fulltext is kept, seen before or not
RECURSIVE MergeNoDedup(_, _, _, _)
MergeNoDedup(todo, semantic_results, fulltext_results, merged) ==
    IF todo = <<>> THEN merged
    ELSE LET r == Head(todo)
             upd == [r EXCEPT !.score = RrfScore(semantic_results,
                                                 fulltext_results, r.pmcid),
                              !.search_method = "hybrid"]
         IN  MergeNoDedup(Tail(todo), semantic_results, fulltext_results,
                          Append(merged, upd))

\* merged: the first occurrence of each pmcid in semantic + fulltext order,
\* its score replaced by the RRF score and its search_method by "hybrid"
RECURSIVE Merge(_, _, _, _)
Merge(todo, semantic_results, fulltext_results, merged) ==
    IF todo = <<>> THEN merged
    ELSE LET r == Head(todo)
             seen == \E i \in 1..Len(merged) : merged[i].pmcid = r.pmcid
             upd == [r EXCEPT !.score = RrfScore(semantic_results,
                                                 fulltext_results, r.pmcid),
                              !.search_method = "hybrid"]
         IN  Merge(Tail(todo), semantic_results, fulltext_results,
                   IF seen THEN merged ELSE Append(merged, upd))

\* one step of sorted(..., key=score, reverse=True): r goes after every
\* element whose score is >= its own (the sort is stable)
RECURSIVE InsertDesc(_, _)
InsertDesc(sorted, r) ==
    IF sorted = <<>> THEN <<r>>
    ELSE IF Head(sorted).score >= r.score
         THEN <<Head(sorted)>> \o InsertDesc(Tail(sorted), r)
         ELSE <<r>> \o sorted

\* faulty variant: the merged results are returned in merge order, not sorted
UnsortedByScore(results) == results

RECURSIVE SortedByScore(_)
SortedByScore(results) ==
    IF results = <<>> THEN <<>>
    ELSE InsertDesc(SortedByScore(SubSeq(results, 1, Len(results) - 1)),
                    results[Len(results)])

\* faulty variant: offset and limit are handed to the retrievers and the
\* fused list is cut at limit
HybridPagedRetrievers(sim, order, rank, limit, offset, min_similarity) ==
    LET semantic_results ==
            _semantic_search(sim, order, limit, offset, min_similarity)
        fulltext_results == _fulltext_search(rank, limit, offset)
        merged == Merge(semantic_results \o fulltext_results,
                        semantic_results, fulltext_results, <<>>)
    IN  Slice(SortedByScore(merged), 0, limit)

_hybrid_search(sim, order, rank, limit, offset, min_similarity) ==
    LET semantic_results ==
            _semantic_search(sim, order, limit * 2, 0, min_similarity)
        fulltext_results == _fulltext_search(rank, limit * 2, 0)
        merged == Merge(semantic_results \o fulltext_results,
                        semantic_results, fulltext_results, <<>>)
    IN  Slice(SortedByScore(merged), offset, limit)

-----------------------------------------------------------------------------
(* HybridSearchEngine.search *)

Modes == {"semantic", "fulltext", "hybrid"}

NoCalls == [embedding |-> 0, vector |-> 0, lexical |-> 0]

\* calls search() issues to the embedding service and to the two stores
CallsOf(mode) ==
    [embedding |-> IF mode \in {"semantic", "hybrid"} THEN 1 ELSE 0,
     vector    |-> IF mode \in {"semantic", "hybrid"} THEN 1 ELSE 0,
     lexical   |-> IF mode \in {"fulltext", "hybrid"} THEN 1 ELSE 0]

\* faulty variant: the length test is made on the query as given, not stripped
QueryRefusedUnstripped(query) == query = <<>> \/ Len(query) < 2

QueryRefused(query) == query = <<>> \/ Len(Strip(query)) < 2

\* pagination fields of the response
Page(offset, limit) == (offset \div limit) + 1
\* faulty variant: floor instead of ceiling
TotalPagesFloor(total_count, limit) == total_count \div limit

TotalPages(total_count, limit) == (total_count + limit - 1) \div limit
HasNext(offset, limit, total_count) == offset + limit < total_count

search(sim, order, rank, query, mode, limit, offset, min_similarity) ==
    IF QueryRefused(query)
    THEN [resp |-> [query |-> query, mode |-> mode, results |-> <<>>,
                    total_count |-> 0, page |-> 1, total_pages |-> 0,
                    has_next |-> FALSE],
          calls |-> NoCalls]
    ELSE LET results ==
                 CASE mode = "semantic" ->
                          _semantic_search(sim, order, limit, offset,
                                           min_similarity)
                   [] mode = "fulltext" ->
                          _fulltext_search(rank, limit, offset)
                   [] mode = "hybrid" ->
                          _hybrid_search(sim, order, rank, limit, offset,
                                         min_similarity)
             total_count == Len(results)
         IN  [resp |-> [query |-> Strip(query), mode |-> mode,
                        results |-> results,
                        total_count |-> total_count,
                        page |-> Page(offset, limit),
                        total_pages |-> TotalPages(total_count, limit),
                        has_next |-> HasNext(offset, limit, total_count)],
              calls |-> CallsOf(mode)]

-----------------------------------------------------------------------------
(* Requests and responses of search() *)

NoRequest == [query |-> <<>>, mode |-> "hybrid", limit |-> 1, offset |-> 0,
              min_similarity |-> 30000]
NoResponse == [query |-> <<>>, mode |-> "none", results |-> <<>>,
               total_count |-> 0, page |-> 0, total_pages |-> 0,
               has_next |-> FALSE]


-----------------------------------------------------------------------------
(* Python values and their JSON serialization                               *)
(*                                                                          *)
(* A value is [kind, v]: kind tells how json.dumps(value, default=str)      *)
(* treats it, v tells values of one kind apart.  "tuple" is a tuple,        *)
(* "object" an instance json cannot encode (default=str turns it into its   *)
(* str()), "badkeys" a dict one of whose keys is not a str, int, float,     *)
(* bool or None (TypeError), "circular" a container holding itself          *)
(* (ValueError).  A JSON text is written as the value it parses to.         *)

None == [kind |-> "None", v |-> 0]

ResultValues == { None,
                  [kind |-> "int", v |-> 7],
                  [kind |-> "tuple", v |-> 7],
                  [kind |-> "badkeys", v |-> 7],
                  [kind |-> "circular", v |-> 7] }

\* the text json.dumps(value, default=str) returns, or the exception it raises
Dumps(value) ==
    CASE value.kind = "circular" -> [ok |-> FALSE, exc |-> "ValueError",
                                     text |-> None]
      [] value.kind = "badkeys"  -> [ok |-> FALSE, exc |-> "TypeError",
                                     text |-> None]
      [] value.kind = "None"     -> [ok |-> TRUE, exc |-> "",
                                     text |-> [kind |-> "null", v |-> 0]]
      [] value.kind = "tuple"    -> [ok |-> TRUE, exc |-> "",
                                     text |-> [kind |-> "list", v |-> value.v]]
      [] value.kind = "object"   -> [ok |-> TRUE, exc |-> "",
                                     text |-> [kind |-> "str", v |-> value.v]]
      [] OTHER                   -> [ok |-> TRUE, exc |-> "", text |-> value]

\* the values Python takes as false that json encodes: 0, False, [], {}
\* and ""; v = 0 stands for the number 0, for False and for no element
FalsyValues == { [kind |-> "int", v |-> 0], [kind |-> "bool", v |-> 0],
                 [kind |-> "list", v |-> 0], [kind |-> "dict", v |-> 0],
                 [kind |-> "str", v |-> 0] }

\* the least number of characters of a JSON text of each kind: null, a
\* digit, true, [], {} and ""
JsonTextMinLen(kind) ==
    CASE kind = "null" -> 4
      [] kind = "int"  -> 1
      [] kind = "bool" -> 4
      [] OTHER         -> 2

\* json.loads(text)
Loads(text) == IF text.kind = "null" THEN None ELSE text

-----------------------------------------------------------------------------
(* RedisCache._generate_key *)

\* keyword names, in the order sorted() gives them
KwNames == <<"a", "b">>
NameIndex(name) == CHOOSE i \in 1..Len(KwNames) : KwNames[i] = name

\* one step of sorted(kwargs.items()): the names of a dict are distinct
RECURSIVE InsertItem(_, _)
InsertItem(sorted, item) ==
    IF sorted = <<>> THEN <<item>>
    ELSE IF NameIndex(Head(sorted).name) <= NameIndex(item.name)
         THEN <<Head(sorted)>> \o InsertItem(Tail(sorted), item)
         ELSE <<item>> \o sorted

\* faulty variant: the items are left in the order the caller passed them
UnsortedItems(kwargs) == kwargs

RECURSIVE SortedItems(_)
SortedItems(kwargs) ==
    IF kwargs = <<>> THEN <<>>
    ELSE InsertItem(SortedItems(SubSeq(kwargs, 1, Len(kwargs) - 1)),
                    kwargs[Len(kwargs)])

\* hashlib.md5(s).hexdigest(): a function of the text alone, taken to be free
\* of collisions on the texts of the model
Md5(key_string) == <<"md5", key_string>>

\* the values json.dumps meets, 'args' before 'kwargs'
KeyValues(args, kwargs) ==
    args \o [i \in 1..Len(kwargs) |-> SortedItems(kwargs)[i].value]

\* returns [ok, key] or [~ok, exc]: json.dumps is not guarded here
_generate_key(prefix, args, kwargs) ==
    LET values == KeyValues(args, kwargs)
        bad == {i \in 1..Len(values) : ~Dumps(values[i]).ok}
        first == CHOOSE i \in bad : \A j \in bad : i <= j
        items == SortedItems(kwargs)
        key_string ==
            [args |-> [i \in 1..Len(args) |-> Dumps(args[i]).text],
             kwargs |-> [i \in 1..Len(items) |->
                            <<items[i].name, Dumps(items[i].value).text>>]]
    IN  IF bad # {}
        THEN [ok |-> FALSE, exc |-> Dumps(values[first]).exc, key |-> <<>>]
        ELSE [ok |-> TRUE, exc |-> "",
              key |-> <<prefix, Md5(key_string)>>]

-----------------------------------------------------------------------------
(* RedisCache: construction, get, set *)

default_ttl == 36000
TtlNone == -1

\* the clock counts half seconds, a ttl is a number of seconds
ClockHz == 2

\* RedisCache.__init__: enabled unless REDIS_ENABLED is false or ping() raises
Construct(env_enabled, ping_ok) ==
    IF env_enabled /\ ping_ok THEN "enabled" ELSE "disabled"

\* get_cache(): the global instance, constructed on first use
get_cache(instance, env_enabled, ping_ok) ==
    IF instance = "unset" THEN Construct(env_enabled, ping_ok) ELSE instance

\* the backend's GET: the text under key while the entry has not expired
Alive(data, key, time) == {e \in data : e.key = key /\ time <= e.expire_at}

RedisGet(data, key, time) ==
    IF Alive(data, key, time) = {} THEN [found |-> FALSE, text |-> None]
    ELSE [found |-> TRUE,
          text |-> (CHOOSE e \in Alive(data, key, time) : TRUE).text]

\* faulty variant: a live entry under key is kept, the first writer wins
RedisSetnx(data, key, ttl, text, time) ==
    IF Alive(data, key, time) # {} THEN data
    ELSE {e \in data : e.key # key}
        \cup {[key |-> key, text |-> text, expire_at |-> time + ttl * ClockHz]}

\* the backend's SETEX: the entry under key is replaced
RedisSetex(data, key, ttl, text, time) ==
    {e \in data : e.key # key}
        \cup {[key |-> key, text |-> text, expire_at |-> time + ttl * ClockHz]}

\* a prefix split at its ':'
Segments(prefix) ==
    CASE prefix = "neo4j:full_graph" -> <<"neo4j", "full_graph">>
      [] prefix = "neo4j:stats"      -> <<"neo4j", "stats">>
      [] prefix = "search:hybrid"    -> <<"search", "hybrid">>
      [] prefix = "api:graph:full"   -> <<"api", "graph", "full">>
      [] prefix = "api:graph:stats"  -> <<"api", "graph", "stats">>

\* scan_iter(match=pattern) for a pattern 'a:b:*', written <<"a", "b">>: the
\* key '<prefix>:<digest>' matches when its prefix starts with these segments
GlobMatch(pattern, key) ==
    /\ Len(Segments(key[1])) >= Len(pattern)
    /\ SubSeq(Segments(key[1]), 1, Len(pattern)) = pattern

\* faulty variant: only one of the keys scanned is deleted
ClearOneKey(instance, data, pattern, time, scan_ok) ==
    LET keys == {e.key : e \in {x \in data : /\ time <= x.expire_at
                                             /\ GlobMatch(pattern, x.key)}}
        first == CHOOSE key \in keys : TRUE
    IN  IF instance # "enabled" \/ ~scan_ok \/ keys = {}
        THEN [deleted |-> 0, data |-> data]
        ELSE [deleted |-> 1, data |-> {e \in data : e.key # first}]

\* RedisCache.clear_pattern: [deleted, data]; 0 when disabled and on a
\* RedisError of the scan or of the delete
CacheClearPattern(instance, data, pattern, time, scan_ok) ==
    LET keys == {e.key : e \in {x \in data : /\ time <= x.expire_at
                                             /\ GlobMatch(pattern, x.key)}}
    IN  IF instance # "enabled" \/ ~scan_ok
        THEN [deleted |-> 0, data |-> data]
        ELSE [deleted |-> Cardinality(keys),
              data |-> {e \in data : e.key \notin keys}]

\* faulty variant: the test is made on the value the text parses to
ParsedIsTruthy(found, text) ==
    found /\ text.kind # "null" /\ text \notin FalsyValues

\* `if cached:` on what the backend's GET returns: None when there is no
\* entry, else the text of the entry, which is true unless it is empty
CachedIsTruthy(found, text) == found /\ JsonTextMinLen(text.kind) > 0

\* RedisCache.get: None when disabled, on a miss and on a RedisError
CacheGet(instance, data, key, time, get_ok) ==
    IF instance # "enabled" THEN None
    ELSE IF ~get_ok THEN None
    ELSE IF CachedIsTruthy(RedisGet(data, key, time).found,
                           RedisGet(data, key, time).text)
         THEN Loads(RedisGet(data, key, time).text)
         ELSE None

\* ttl = ttl or self.default_ttl
EffectiveTtl(ttl) == IF ttl = TtlNone \/ ttl = 0 THEN default_ttl ELSE ttl

\* RedisCache.set: [raised, exc, stored, data]; TypeError and RedisError are
\* caught and give False, any other exception of json.dumps escapes
CacheSet(instance, data, key, value, ttl, time, set_ok) ==
    IF instance # "enabled"
    THEN [raised |-> FALSE, exc |-> "", stored |-> FALSE, data |-> data]
    ELSE IF ~Dumps(value).ok
         THEN IF Dumps(value).exc = "TypeError"
              THEN [raised |-> FALSE, exc |-> "", stored |-> FALSE,
                    data |-> data]
              ELSE [raised |-> TRUE, exc |-> Dumps(value).exc,
                    stored |-> FALSE, data |-> data]
         ELSE IF ~set_ok
              THEN [raised |-> FALSE, exc |-> "", stored |-> FALSE,
                    data |-> data]
              ELSE [raised |-> FALSE, exc |-> "", stored |-> TRUE,
                    data |-> RedisSetex(data, key, EffectiveTtl(ttl),
                                        Dumps(value).text, time)]

-----------------------------------------------------------------------------
(* cache_neo4j_query(prefix, ttl): the two wrappers *)

\* Wrapped operations: the coroutine of the decorator's docstring and a plain
\* function decorated without ttl.
Funcs == { [name |-> "get_full_graph", coroutine |-> TRUE,
            prefix |-> "neo4j:full_graph", ttl |-> 1800],
           [name |-> "get_stats", coroutine |-> FALSE,
            prefix |-> "neo4j:stats", ttl |-> TtlNone] }

\* the search handler as src/api_ai.py decorates it
SearchFunc == [name |-> "hybrid_search", coroutine |-> TRUE,
               prefix |-> "search:hybrid", ttl |-> 1800]

\* The body async_wrapper and sync_wrapper share, `result` being what
\* func(*args, **kwargs) returns if it is run.
WrapperBody(instance, data, time, prefix, ttl, args, kwargs, result, get_ok, set_ok) ==
    LET gen == _generate_key(prefix, args, kwargs)
        cached_result == CacheGet(instance, data, gen.key, time, get_ok)
        put == CacheSet(instance, data, gen.key, result, ttl, time, set_ok)
    IN  IF ~gen.ok
        THEN [status |-> "raised", exc |-> gen.exc, key |-> gen.key,
              hit |-> FALSE, invoked |-> 0, returned |-> None,
              stored |-> FALSE, data |-> data]
        ELSE IF cached_result # None
        THEN [status |-> "returned", exc |-> "", key |-> gen.key,
              hit |-> TRUE, invoked |-> 0, returned |-> cached_result,
              stored |-> FALSE, data |-> data]
        ELSE IF put.raised
        THEN [status |-> "raised", exc |-> put.exc, key |-> gen.key,
              hit |-> FALSE, invoked |-> 1, returned |-> None,
              stored |-> FALSE, data |-> data]
        ELSE [status |-> "returned", exc |-> "", key |-> gen.key,
              hit |-> FALSE, invoked |-> 1, returned |-> result,
              stored |-> put.stored, data |-> put.data]

async_wrapper(instance, data, time, prefix, ttl, args, kwargs, result, get_ok, set_ok) ==
    WrapperBody(instance, data, time, prefix, ttl, args, kwargs, result,
                get_ok, set_ok)

sync_wrapper(instance, data, time, prefix, ttl, args, kwargs, result, get_ok, set_ok) ==
    WrapperBody(instance, data, time, prefix, ttl, args, kwargs, result,
                get_ok, set_ok)

\* inspect.iscoroutinefunction(func) selects the wrapper
Decorated(func, instance, data, time, args, kwargs, result, get_ok, set_ok) ==
    IF func.coroutine
    THEN async_wrapper(instance, data, time, func.prefix, func.ttl, args,
                       kwargs, result, get_ok, set_ok)
    ELSE sync_wrapper(instance, data, time, func.prefix, func.ttl, args,
                      kwargs, result, get_ok, set_ok)

-----------------------------------------------------------------------------
(* The cache layer as a state machine *)

\* Arguments of the calls: one positional argument, which json can encode
\* or not.
ArgValues == { [kind |-> "int", v |-> 7], [kind |-> "badkeys", v |-> 7],
               [kind |-> "circular", v |-> 7] }
CallArgs == { [args |-> <<a>>, kwargs |-> <<>>] : a \in ArgValues }

\* clock steps: 900 s and 1800 s
TimeSteps == {900 * ClockHz, 1800 * ClockHz}

NoCall == [status |-> "idle", func |-> "", args |-> <<>>, kwargs |-> <<>>,
           result |-> None, ping_ok |-> TRUE, get_ok |-> TRUE,
           set_ok |-> TRUE, exc |-> "", key |-> <<>>, hit |-> FALSE,
           invoked |-> 0, returned |-> None, stored |-> FALSE,
           cleared |-> 0]

NoHttp == [status |-> "idle", req |-> <<>>, resp |-> None,
           calls |-> NoCalls, first_resp |-> None]
NoKeyCalls == <<[done |-> FALSE], [done |-> FALSE]>>

\* keys of the entries written directly: one per prefix and argument
KeyOf(prefix, n) == _generate_key(prefix, <<[kind |-> "int", v |-> n]>>, <<>>).key
StoreKeys == {KeyOf("api:graph:full", 100), KeyOf("api:graph:stats", 0)}

NoOp == [name |-> "none", at |-> 0, key |-> <<>>, status |-> "returned",
         exc |-> "", stored |-> FALSE, got |-> None, pattern |-> <<>>,
         ok |-> TRUE, deleted |-> 0]
NoSet == [set |-> FALSE, value |-> None, ttl |-> TtlNone, at |-> 0]

StoreIdle ==
    /\ op = NoOp
    /\ last_set = [key \in StoreKeys |-> NoSet]

NoGctx == [status |-> "idle", query |-> <<>>, mode |-> "hybrid", limit |-> 1,
           include_related |-> FALSE, failing |-> {}, exc |-> "",
           response |-> NoResponse, lookups |-> <<>>, enriched |-> {},
           closed |-> FALSE]

NoRun == [pc |-> "idle", query |-> <<>>, mode |-> "hybrid", limit |-> 1,
          min_similarity |-> 0, semantic |-> "idle", fulltext |-> "idle",
          semantic_results |-> <<>>, fulltext_results |-> <<>>,
          status |-> "none", exc |-> "", response |-> NoResponse]

Callers == 1..MaxCallers

NoCaller == [pc |-> "idle", hit |-> FALSE, invoked |-> 0, result |-> None,
             returned |-> None, stored |-> FALSE, overlapped |-> FALSE,
             origin |-> None]

NoPut == [set |-> FALSE, value |-> None, by |-> 0]

RaceIdle ==
    /\ callers = [c \in Callers |-> NoCaller]
    /\ puts = {}
    /\ last_put = NoPut

NoEmb == [status |-> "idle", via |-> "none", mode |-> "hybrid",
          text |-> None, called |-> FALSE, vector |-> <<>>]

EmbedIdle ==
    /\ embedding_dim = MaxDim
    /\ emb = NoEmb

NoNeo == [status |-> "idle", cleared |-> FALSE, method |-> "none", nth |-> 0,
          queries |-> 0, rows |-> 0]

NeoIdle ==
    /\ graph = [publications |-> 0, organisms |-> 0, phenomena |-> 0]
    /\ neo = NoNeo

NoSop == [name |-> "none", session_id |-> "", history |-> <<>>,
          info |-> "none", deleted |-> 0, raised |-> FALSE]

SessIdle ==
    /\ sessions = {}
    /\ messages = <<>>
    /\ wall = 0
    /\ sop = NoSop

\* no question is being answered; the tracker as CitationTracker() makes it
NoCite == [used_pmcids |-> {}, stack |-> <<>>,
           pc |-> [q \in 1..MaxQuestions |-> "idle"],
           own |-> [q \in 1..MaxQuestions |-> {}],
           nested |-> [q \in 1..MaxQuestions |-> FALSE],
           citations |-> [q \in 1..MaxQuestions |-> {}]]

NoTwice == [status |-> "idle", semantic_results |-> <<>>,
            fulltext_results |-> <<>>, limit |-> 1, offset |-> 0,
            first |-> <<>>, second |-> <<>>]

LateIdle ==
    /\ SessIdle
    /\ twice = NoTwice
    /\ cite = NoCite

AuxIdle ==
    /\ StoreIdle
    /\ gctx = NoGctx
    /\ task = NoRun
    /\ RaceIdle
    /\ EmbedIdle
    /\ NeoIdle
    /\ LateIdle

CacheIdle ==
    /\ REDIS_ENABLED = TRUE
    /\ _cache = "unset"
    /\ redis_data = {}
    /\ now = 0
    /\ ticks = 0
    /\ call = NoCall

SearchIdle ==
    /\ similarity = [d \in Docs |-> NoVec]
    /\ ts_rank = [d \in Docs |-> NoMatch]
    /\ vector_order = <<>>
    /\ spc = "idle"
    /\ request = NoRequest
    /\ response = NoResponse
    /\ store_calls = NoCalls

\* every part but the later ones at rest
BaseIdle ==
    /\ SearchIdle
    /\ CacheIdle
    /\ http = NoHttp
    /\ key_calls = NoKeyCalls
    /\ StoreIdle
    /\ gctx = NoGctx
    /\ task = NoRun
    /\ RaceIdle
    /\ EmbedIdle
    /\ NeoIdle

InitCache ==
    /\ REDIS_ENABLED \in BOOLEAN
    /\ _cache = "unset"
    /\ redis_data = {}
    /\ now = 0
    /\ ticks = 0
    /\ call = NoCall
    /\ SearchIdle
    /\ http = NoHttp
    /\ key_calls = NoKeyCalls
    /\ AuxIdle

\* One call of a wrapped operation.  ping_ok, get_ok and set_ok tell whether
\* the backend answers the ping of the construction, the GET and the SETEX of
\* this call (a RedisError otherwise); result is what the operation returns.
WrappedCall(func, a, result, ping_ok, get_ok, set_ok) ==
    /\ call.status = "idle"
    \* an answer of the backend that nothing asks for is not a separate case
    /\ _cache # "unset" => ping_ok
    /\ get_cache(_cache, REDIS_ENABLED, ping_ok) # "enabled" => get_ok /\ set_ok
    /\ ~_generate_key(func.prefix, a.args, a.kwargs).ok => get_ok /\ set_ok
    /\ LET instance == get_cache(_cache, REDIS_ENABLED, ping_ok)
           out == Decorated(func, instance, redis_data, now, a.args, a.kwargs,
                            result, get_ok, set_ok)
       IN  /\ _cache' = instance
           /\ redis_data' = out.data
           /\ call' = [status |-> out.status, func |-> func.name,
                       args |-> a.args, kwargs |-> a.kwargs,
                       result |-> IF out.invoked = 1 THEN result ELSE None,
                       ping_ok |-> ping_ok, get_ok |-> get_ok,
                       set_ok |-> set_ok, exc |-> out.exc, key |-> out.key,
                       hit |-> out.hit, invoked |-> out.invoked,
                       returned |-> out.returned, stored |-> out.stored,
                       \* keys the clear_pattern just before removed, if
                       \* the key of this call matches its pattern
                       cleared |-> IF /\ op.name = "clear_pattern"
                                      /\ out.key # <<>>
                                      /\ GlobMatch(op.pattern, out.key)
                                   THEN op.deleted ELSE 0]
    /\ op' = NoOp
    /\ UNCHANGED <<REDIS_ENABLED, now, ticks>>
    /\ UNCHANGED <<searchVars, http, key_calls, last_set, engineVars,
                   raceVars, embedVars, neoVars, lateVars>>

\* the caller takes the outcome; the next call can start
CallReturn ==
    /\ call.status # "idle"
    /\ call' = NoCall
    /\ UNCHANGED <<REDIS_ENABLED, _cache, redis_data, now, ticks>>
    /\ UNCHANGED <<searchVars, http, key_calls, auxVars>>

\* time passes; the backend drops the entries whose ttl has run out
Tick(step) ==
    /\ call.status = "idle"
    /\ ticks < MaxTicks
    /\ now' = now + step
    /\ ticks' = ticks + 1
    /\ redis_data' = {e \in redis_data : now' <= e.expire_at}
    /\ UNCHANGED <<REDIS_ENABLED, _cache, call>>
    /\ UNCHANGED <<searchVars, http, key_calls, auxVars>>

\* the glob patterns 'search:*' and 'neo4j:*'
Patterns == { <<"search">>, <<"neo4j">> }

\* cache.clear_pattern(pattern) on the instance in use; scan_ok tells whether
\* the backend answers the scan and the delete
ClearPattern(pattern, scan_ok) ==
    /\ call.status = "idle"
    /\ _cache # "unset"
    /\ _cache # "enabled" => scan_ok
    /\ LET out == CacheClearPattern(_cache, redis_data, pattern, now, scan_ok)
       IN  /\ redis_data' = out.data
           /\ op' = [NoOp EXCEPT !.name = "clear_pattern",
                                 !.pattern = pattern, !.ok = scan_ok,
                                 !.deleted = out.deleted]
           /\ last_set' = [key \in StoreKeys |->
                              IF key \in {e.key : e \in redis_data \ out.data}
                              THEN NoSet ELSE last_set[key]]
    /\ UNCHANGED <<REDIS_ENABLED, _cache, now, ticks, call>>
    /\ UNCHANGED <<searchVars, http, key_calls, engineVars, raceVars, embedVars, neoVars, lateVars>>

NextCache ==
    \/ \E func \in Funcs, a \in CallArgs, result \in ResultValues,
          ping_ok \in BOOLEAN, get_ok \in BOOLEAN, set_ok \in BOOLEAN :
          WrappedCall(func, a, result, ping_ok, get_ok, set_ok)
    \/ CallReturn
    \/ \E step \in TimeSteps : Tick(step)

SpecCache == InitCache /\ [][NextCache]_vars

\* Wrapped calls and clear_pattern on a cache that is connected: the calls
\* pass arguments and return results that json encodes, and the backend
\* answers their GET and SETEX
InitClear ==
    /\ REDIS_ENABLED = TRUE
    /\ _cache = "enabled"
    /\ redis_data = {}
    /\ now = 0
    /\ ticks = 0
    /\ call = NoCall
    /\ SearchIdle
    /\ http = NoHttp
    /\ key_calls = NoKeyCalls
    /\ AuxIdle

ClearResults == { None, [kind |-> "int", v |-> 7] }

NextClear ==
    \/ \E func \in Funcs \cup {SearchFunc}, result \in ClearResults :
          WrappedCall(func, [args |-> <<[kind |-> "int", v |-> 7]>>,
                             kwargs |-> <<>>], result, TRUE, TRUE, TRUE)
    \/ CallReturn
    \/ \E step \in TimeSteps : Tick(step)
    \/ \E pattern \in Patterns, scan_ok \in BOOLEAN :
          ClearPattern(pattern, scan_ok)

SpecClear == InitClear /\ [][NextClear]_vars

\* Wrapped operations that return None or a value Python takes as false,
\* called again and again on a connected cache
FalsyResults == {None} \cup FalsyValues

NextFalsy ==
    \/ \E func \in Funcs, result \in FalsyResults :
          WrappedCall(func, [args |-> <<[kind |-> "int", v |-> 7]>>,
                             kwargs |-> <<>>], result, TRUE, TRUE, TRUE)
    \/ CallReturn

SpecFalsy == InitClear /\ [][NextFalsy]_vars

-----------------------------------------------------------------------------
(* RedisCache used directly, as src/api_neo4j.py does: set and get *)

\* values and ttls given to set(): None is a value like another, ttl = None
\* is written TtlNone
SetValues == { None, [kind |-> "int", v |-> 7] }
SetTtls == {TtlNone, 0, 1}

\* clock steps: 0.5 s, 1.5 s and 3600.5 s
StoreSteps == {1, 3, 3600 * ClockHz + 1}

InitStore ==
    /\ REDIS_ENABLED = TRUE
    /\ _cache = "enabled"
    /\ redis_data = {}
    /\ now = 0
    /\ ticks = 0
    /\ call = NoCall
    /\ SearchIdle
    /\ http = NoHttp
    /\ key_calls = NoKeyCalls
    /\ AuxIdle

\* cache.set(key, value, ttl=ttl), the backend accepting the SETEX
Set(key, value, ttl) ==
    /\ LET put == CacheSet(_cache, redis_data, key, value, ttl, now, TRUE)
       IN  /\ redis_data' = put.data
           /\ op' = [NoOp EXCEPT !.name = "set", !.at = now, !.key = key,
                                 !.status = IF put.raised THEN "raised"
                                                          ELSE "returned",
                                 !.exc = put.exc, !.stored = put.stored]
           /\ last_set' = IF put.stored
                          THEN [last_set EXCEPT ![key] =
                                   [set |-> TRUE, value |-> value,
                                    ttl |-> ttl, at |-> now]]
                          ELSE last_set
    /\ UNCHANGED <<REDIS_ENABLED, _cache, now, ticks, call>>
    /\ UNCHANGED <<searchVars, http, key_calls, engineVars, raceVars, embedVars, neoVars, lateVars>>

\* cache.get(key), the backend answering the GET
Get(key) ==
    /\ op' = [NoOp EXCEPT !.name = "get", !.at = now, !.key = key,
                          !.got = CacheGet(_cache, redis_data, key, now, TRUE)]
    /\ UNCHANGED <<REDIS_ENABLED, _cache, redis_data, now, ticks, call>>
    /\ UNCHANGED <<searchVars, http, key_calls, last_set, engineVars,
                   raceVars, embedVars, neoVars, lateVars>>

NextStore ==
    \/ \E key \in StoreKeys, value \in SetValues, ttl \in SetTtls :
          Set(key, value, ttl)
    \/ \E key \in StoreKeys : Get(key)
    \/ \E step \in StoreSteps : Tick(step)

SpecStore == InitStore /\ [][NextStore]_vars

-----------------------------------------------------------------------------
(* The search engine as a state machine *)

InitSearch ==
    /\ similarity \in [Docs -> SimLevels \cup {NoVec}]
    /\ \E matching \in SUBSET Docs :
          ts_rank = [d \in Docs |-> IF d \in matching THEN DocRank(d)
                                                    ELSE NoMatch]
    /\ vector_order = <<>>
    /\ spc = "idle"
    /\ request = NoRequest
    /\ response = NoResponse
    /\ store_calls = NoCalls
    /\ CacheIdle
    /\ http = NoHttp
    /\ key_calls = NoKeyCalls
    /\ AuxIdle

\* One call of search(); `order` is the order in which the vector store
\* gives its rows to this call.
Search(query, mode, limit, offset, min_similarity) ==
    /\ spc = "idle"
    /\ \E order \in VectorOrders(similarity) :
          \* an order that nothing asks for is not a separate case
          /\ CallsOf(mode).vector = 0 \/ QueryRefused(query)
                 => order = OrderByPmcid(similarity)
          /\ response' = search(similarity, order, ts_rank, query, mode,
                                limit, offset, min_similarity).resp
          /\ store_calls' = search(similarity, order, ts_rank, query, mode,
                                   limit, offset, min_similarity).calls
          /\ vector_order' = order
    /\ request' = [query |-> query, mode |-> mode, limit |-> limit,
                   offset |-> offset, min_similarity |-> min_similarity]
    /\ spc' = "done"
    /\ UNCHANGED <<similarity, ts_rank>>
    /\ UNCHANGED <<cacheVars, http, key_calls, auxVars>>

\* the caller drops the response; the next request starts from the same stores
Return ==
    /\ spc = "done"
    /\ spc' = "idle"
    /\ request' = NoRequest
    /\ response' = NoResponse
    /\ store_calls' = NoCalls
    /\ vector_order' = <<>>
    /\ UNCHANGED <<similarity, ts_rank>>
    /\ UNCHANGED <<cacheVars, http, key_calls, auxVars>>

NextSearch ==
    \/ \E query \in Queries, mode \in Modes, limit \in Limits,
          offset \in Offsets, min_similarity \in MinSimilarities :
          Search(query, mode, limit, offset, min_similarity)
    \/ Return

SpecSearch == InitSearch /\ [][NextSearch]_vars


-----------------------------------------------------------------------------
(* Concurrent calls of one wrapped coroutine with the same arguments *)

\* the coroutine the callers share and the key of their call
RaceFunc == [name |-> "get_full_graph", coroutine |-> TRUE,
             prefix |-> "neo4j:full_graph", ttl |-> 1800]

RaceKey == _generate_key(RaceFunc.prefix, <<[kind |-> "int", v |-> 7]>>, <<>>).key

\* what the operation can return to a caller
RaceResults == {None, [kind |-> "int", v |-> 7], [kind |-> "int", v |-> 8],
                [kind |-> "tuple", v |-> 7]}

\* async_wrapper up to its await: get_cache, _generate_key, cache.get; a hit
\* returns, a miss calls func and suspends the caller until func answers.
\* `origin` keeps, for a hit, the value the call that stored the entry
\* returned to its own caller
Enter(c) ==
    /\ callers[c].pc = "idle"
    /\ callers' =
         IF CacheGet(_cache, redis_data, RaceKey, now, TRUE) # None
         THEN [callers EXCEPT ![c] =
                  [NoCaller EXCEPT !.pc = "returned", !.hit = TRUE,
                      !.returned = CacheGet(_cache, redis_data, RaceKey, now,
                                            TRUE),
                      !.origin = last_put.value]]
         ELSE [d \in Callers |->
                  IF d = c
                  THEN [NoCaller EXCEPT !.pc = "awaiting", !.invoked = 1,
                           !.overlapped =
                               \E e \in Callers \ {c} :
                                   callers[e].pc = "awaiting"]
                  ELSE IF callers[d].pc = "awaiting"
                  THEN [callers[d] EXCEPT !.overlapped = TRUE]
                  ELSE callers[d]]
    /\ UNCHANGED <<searchVars, cacheVars, http, key_calls, storeVars,
                   engineVars, puts, last_put, embedVars, neoVars, lateVars>>

\* async_wrapper from its await on: func has answered `result`, cache.set
\* stores it and the caller returns it
FuncAnswers(c, result) ==
    /\ callers[c].pc = "awaiting"
    /\ callers' = [callers EXCEPT ![c] =
                      [@ EXCEPT !.pc = "returned", !.result = result,
                                !.returned = result,
                                !.stored = CacheSet(_cache, redis_data,
                                    RaceKey, result, RaceFunc.ttl, now,
                                    TRUE).stored]]
    /\ redis_data' = CacheSet(_cache, redis_data, RaceKey, result,
                              RaceFunc.ttl, now, TRUE).data
    /\ puts' = IF CacheSet(_cache, redis_data, RaceKey, result, RaceFunc.ttl,
                           now, TRUE).stored
               THEN puts \cup {result} ELSE puts
    /\ last_put' = IF CacheSet(_cache, redis_data, RaceKey, result,
                               RaceFunc.ttl, now, TRUE).stored
                   THEN [set |-> TRUE, value |-> result, by |-> c]
                   ELSE last_put
    /\ UNCHANGED <<REDIS_ENABLED, _cache, now, ticks, call>>
    /\ UNCHANGED <<searchVars, http, key_calls, storeVars, engineVars,
                   embedVars, neoVars, lateVars>>

\* the caller has taken what the wrapper returned and may call again
Leave(c) ==
    /\ callers[c].pc = "returned"
    /\ callers' = [callers EXCEPT ![c] = NoCaller]
    /\ UNCHANGED <<searchVars, cacheVars, http, key_calls, storeVars,
                   engineVars, puts, last_put, embedVars, neoVars, lateVars>>

InitRace == InitClear

NextRace ==
    \/ \E c \in Callers : Enter(c)
    \/ \E c \in Callers, result \in RaceResults : FuncAnswers(c, result)
    \/ \E c \in Callers : Leave(c)

SpecRace == InitRace /\ [][NextRace]_vars

-----------------------------------------------------------------------------
(* HybridSearchEngine.search_with_graph_context *)

\* The loop over search_response["results"]: one lookup in the graph store
\* per result, in order.  `failing` are the pmcids whose lookup raises; no
\* except clause surrounds the loop, so the first one that raises ends it.
\* [raised, lookups, enriched]
RECURSIVE EnrichLoop(_, _, _, _)
EnrichLoop(results, failing, lookups, enriched) ==
    IF results = <<>>
    THEN [raised |-> FALSE, lookups |-> lookups, enriched |-> enriched]
    ELSE IF Head(results).pmcid \in failing
    THEN [raised |-> TRUE, lookups |-> Append(lookups, Head(results).pmcid),
          enriched |-> enriched]
    ELSE EnrichLoop(Tail(results), failing,
                    Append(lookups, Head(results).pmcid),
                    enriched \cup {Head(results).pmcid})

\* The outcome once search() has answered: search_response as it is when
\* include_related is false, else the loop, the client being closed in the
\* finally clause
GraphContext(search_response, include_related, failing) ==
    IF ~include_related
    THEN [status |-> "returned", exc |-> "", response |-> search_response,
          lookups |-> <<>>, enriched |-> {}, closed |-> FALSE]
    ELSE [status |-> IF EnrichLoop(search_response.results, failing, <<>>,
                                   {}).raised
                     THEN "raised" ELSE "returned",
          exc |-> IF EnrichLoop(search_response.results, failing, <<>>,
                                {}).raised
                  THEN "ServiceUnavailable" ELSE "",
          response |-> IF EnrichLoop(search_response.results, failing, <<>>,
                                     {}).raised
                       THEN NoResponse ELSE search_response,
          lookups |-> EnrichLoop(search_response.results, failing, <<>>,
                                 {}).lookups,
          enriched |-> EnrichLoop(search_response.results, failing, <<>>,
                                  {}).enriched,
          closed |-> TRUE]

\* search_with_graph_context(query, mode, limit, include_related): search()
\* with its default offset 0 and min_similarity 0.3, then the graph lookups
search_with_graph_context(sim, order, rank, query, mode, limit, include_related, failing) ==
    GraphContext(search(sim, order, rank, query, mode, limit, 0, 30000).resp,
                 include_related, failing)

\* the pmcids the loop asks the graph store about
LookedUp(results) == {results[i].pmcid : i \in 1..Len(results)}

\* the lookups that fail: none, or the one of a single publication
Failings == {{}} \cup {{d} : d \in Docs}

InitGraph ==
    /\ similarity \in [Docs -> SimLevels \cup {NoVec}]
    /\ \E matching \in SUBSET Docs :
          ts_rank = [d \in Docs |-> IF d \in matching THEN DocRank(d)
                                                    ELSE NoMatch]
    /\ vector_order = <<>>
    /\ spc = "idle"
    /\ request = NoRequest
    /\ response = NoResponse
    /\ store_calls = NoCalls
    /\ CacheIdle
    /\ http = NoHttp
    /\ key_calls = NoKeyCalls
    /\ AuxIdle

SearchWithGraphContext(query, mode, limit, include_related, failing) ==
    /\ gctx.status = "idle"
    /\ \E order \in VectorOrders(similarity) :
          /\ CallsOf(mode).vector = 0 \/ QueryRefused(query)
                 => order = OrderByPmcid(similarity)
          \* a failure of a lookup that is not made is not a separate case
          /\ failing \subseteq
                 IF include_related
                 THEN LookedUp(search(similarity, order, ts_rank, query, mode,
                                      limit, 0, 30000).resp.results)
                 ELSE {}
          /\ gctx' = [query |-> query, mode |-> mode, limit |-> limit,
                      include_related |-> include_related,
                      failing |-> failing] @@
                     search_with_graph_context(similarity, order, ts_rank,
                                               query, mode, limit,
                                               include_related, failing)
          /\ vector_order' = order
    /\ UNCHANGED <<similarity, ts_rank, spc, request, response, store_calls>>
    /\ UNCHANGED <<cacheVars, http, key_calls, storeVars, task, raceVars, embedVars, neoVars, lateVars>>

GraphReturn ==
    /\ gctx.status # "idle"
    /\ gctx' = NoGctx
    /\ vector_order' = <<>>
    /\ UNCHANGED <<similarity, ts_rank, spc, request, response, store_calls>>
    /\ UNCHANGED <<cacheVars, http, key_calls, storeVars, task, raceVars, embedVars, neoVars, lateVars>>

NextGraph ==
    \/ \E query \in {<<"a">>, <<" ", "a", "b">>}, mode \in Modes,
          limit \in Limits, include_related \in BOOLEAN, failing \in Failings :
          SearchWithGraphContext(query, mode, limit, include_related, failing)
    \/ GraphReturn

SpecGraph == InitGraph /\ [][NextGraph]_vars

-----------------------------------------------------------------------------
(* The coroutine HybridSearchEngine.search, one step per await *)

\* the tail of _hybrid_search once both lists are there: scores, merge,
\* sort, slice
Fuse(semantic_results, fulltext_results, limit, offset) ==
    Slice(SortedByScore(Merge(semantic_results \o fulltext_results,
                              semantic_results, fulltext_results, <<>>)),
          offset, limit)

\* the dict search() returns for a list of results
ResponseOf(query, mode, results, limit, offset) ==
    [query |-> Strip(query), mode |-> mode, results |-> results,
     total_count |-> Len(results), page |-> Page(offset, limit),
     total_pages |-> TotalPages(Len(results), limit),
     has_next |-> HasNext(offset, limit, Len(results))]

\* what can end a retriever's database call other than its rows
RetrieverErrors == {"OperationalError", "TimeoutError"}

\* search() is called: the validation, then the first retriever is awaited
\* (the semantic one in hybrid mode)
SearchBegin(query, mode, limit, min_similarity) ==
    /\ task.pc = "idle"
    /\ task' = IF QueryRefused(query)
              THEN [NoRun EXCEPT !.pc = "done", !.query = query,
                                 !.mode = mode, !.limit = limit,
                                 !.min_similarity = min_similarity,
                                 !.status = "returned",
                                 !.response = search(similarity, <<>>, ts_rank,
                                     query, mode, limit, 0,
                                     min_similarity).resp]
              ELSE [NoRun EXCEPT !.pc = IF mode = "fulltext"
                                        THEN "await_fulltext"
                                        ELSE "await_semantic",
                                 !.query = query, !.mode = mode,
                                 !.limit = limit,
                                 !.min_similarity = min_similarity,
                                 !.semantic = IF mode = "fulltext"
                                              THEN "idle" ELSE "started",
                                 !.fulltext = IF mode = "fulltext"
                                              THEN "started" ELSE "idle",
                                 !.status = "running"]
    /\ UNCHANGED <<searchVars, cacheVars, http, key_calls, storeVars, gctx,
                   raceVars, embedVars, neoVars, lateVars>>

\* `await self._semantic_search(...)` ends.  With rows, semantic mode
\* returns and hybrid mode goes on to await the lexical retriever; with an
\* exception nothing catches it and it leaves search()
SemanticEnds(ok, exc) ==
    /\ task.pc = "await_semantic"
    /\ ok => exc = "OperationalError"
    /\ \E order \in VectorOrders(similarity) :
        /\ ~ok => order = OrderByPmcid(similarity)
        /\ vector_order' = order
        /\ task' =
            IF ~ok
            THEN [task EXCEPT !.pc = "done", !.semantic = "raised",
                             !.status = "raised", !.exc = exc]
            ELSE IF task.mode = "hybrid"
            THEN [task EXCEPT !.pc = "await_fulltext", !.semantic = "done",
                             !.fulltext = "started",
                             !.semantic_results =
                                 _semantic_search(similarity, order,
                                     task.limit * 2, 0, task.min_similarity)]
            ELSE [task EXCEPT !.pc = "done", !.semantic = "done",
                             !.status = "returned",
                             !.semantic_results =
                                 _semantic_search(similarity, order,
                                     task.limit, 0, task.min_similarity),
                             !.response =
                                 ResponseOf(task.query, task.mode,
                                     _semantic_search(similarity, order,
                                         task.limit, 0, task.min_similarity),
                                     task.limit, 0)]
    /\ UNCHANGED <<similarity, ts_rank, spc, request, response, store_calls>>
    /\ UNCHANGED <<cacheVars, http, key_calls, storeVars, gctx, raceVars, embedVars, neoVars, lateVars>>

\* `await self._fulltext_search(...)` ends.  With rows, fulltext mode
\* returns and hybrid mode fuses the two lists and returns; an exception
\* leaves search()
FulltextEnds(ok, exc) ==
    /\ task.pc = "await_fulltext"
    /\ ok => exc = "OperationalError"
    /\ task' =
        IF ~ok
        THEN [task EXCEPT !.pc = "done", !.fulltext = "raised",
                         !.status = "raised", !.exc = exc]
        ELSE IF task.mode = "hybrid"
        THEN [task EXCEPT !.pc = "done", !.fulltext = "done",
                         !.status = "returned",
                         !.fulltext_results =
                             _fulltext_search(ts_rank, task.limit * 2, 0),
                         !.response =
                             ResponseOf(task.query, task.mode,
                                 Fuse(task.semantic_results,
                                      _fulltext_search(ts_rank,
                                                       task.limit * 2, 0),
                                      task.limit, 0),
                                 task.limit, 0)]
        ELSE [task EXCEPT !.pc = "done", !.fulltext = "done",
                         !.status = "returned",
                         !.fulltext_results =
                             _fulltext_search(ts_rank, task.limit, 0),
                         !.response =
                             ResponseOf(task.query, task.mode,
                                 _fulltext_search(ts_rank, task.limit, 0),
                                 task.limit, 0)]
    /\ UNCHANGED <<searchVars, cacheVars, http, key_calls, storeVars, gctx,
                   raceVars, embedVars, neoVars, lateVars>>

\* the caller has taken the result or the exception
SearchEnd ==
    /\ task.pc = "done"
    /\ task' = NoRun
    /\ vector_order' = <<>>
    /\ UNCHANGED <<similarity, ts_rank, spc, request, response, store_calls>>
    /\ UNCHANGED <<cacheVars, http, key_calls, storeVars, gctx, raceVars, embedVars, neoVars, lateVars>>

InitRun == InitGraph

NextRun ==
    \/ \E query \in {<<"a">>, <<" ", "a", "b">>}, mode \in Modes,
          limit \in Limits, min_similarity \in MinSimilarities :
          SearchBegin(query, mode, limit, min_similarity)
    \/ \E ok \in BOOLEAN, exc \in RetrieverErrors : SemanticEnds(ok, exc)
    \/ \E ok \in BOOLEAN, exc \in RetrieverErrors : FulltextEnds(ok, exc)
    \/ SearchEnd

SpecRun == InitRun /\ [][NextRun]_vars

-----------------------------------------------------------------------------
(* EmbeddingsGenerator.generate_embedding and its use by _semantic_search *)

\* a Python str as a value
Str(chars) == [kind |-> "str", v |-> chars]

\* len(text.strip()) below which no model is run
MinEmbedChars == 10

Repeat(ch, n) == [i \in 1..n |-> ch]

\* the texts: None, and n letters between two runs of blanks
Texts ==
    {None} \cup {Str(Repeat(" ", l) \o Repeat("a", n) \o Repeat(" ", r)) :
                     l \in 0..MaxPad, r \in 0..MaxPad, n \in 0..MaxTextLen}

\* the dimensions a sentence-transformers model can have, scaled down
Dims == 2..MaxDim

\* faulty variant: the length is taken without strip()
TooShortUnstripped(text) ==
    \/ text.kind = "None"
    \/ text.v = <<>>
    \/ Len(text.v) < MinEmbedChars

\* `not text or len(text.strip()) < 10`
TooShort(text) ==
    \/ text.kind = "None"
    \/ text.v = <<>>
    \/ Len(Strip(text.v)) < MinEmbedChars

\* model.encode(text).tolist(): dim components, decided by the text, not all
\* zero
Encode(text, dim) == [i \in 1..dim |-> 1 + ((Len(text.v) + i) % 3)]

generate_embedding(text, dim) ==
    IF TooShort(text) THEN [i \in 1..dim |-> 0] ELSE Encode(text, dim)

InitEmbed ==
    /\ SearchIdle
    /\ CacheIdle
    /\ http = NoHttp
    /\ key_calls = NoKeyCalls
    /\ StoreIdle
    /\ gctx = NoGctx
    /\ task = NoRun
    /\ RaceIdle
    /\ NeoIdle
    /\ LateIdle
    /\ embedding_dim \in Dims
    /\ emb = NoEmb

\* generate_embedding(text) called directly
GenerateEmbedding(text) ==
    /\ emb.status = "idle"
    /\ emb' = [status |-> "returned", via |-> "direct", mode |-> "hybrid",
               text |-> text, called |-> TRUE,
               vector |-> generate_embedding(text, embedding_dim)]
    /\ UNCHANGED <<searchVars, cacheVars, http, key_calls, storeVars,
                   engineVars, raceVars, embedding_dim, neoVars, lateVars>>

\* search(query, mode): after the validation the stripped query goes to
\* _semantic_search in semantic and hybrid mode, whose first statement is
\* generate_embedding(query)
SearchEmbeds(query, mode) ==
    /\ emb.status = "idle"
    /\ emb' = IF QueryRefused(query.v) \/ CallsOf(mode).embedding = 0
              THEN [status |-> "returned", via |-> "search", mode |-> mode,
                    text |-> query, called |-> FALSE, vector |-> <<>>]
              ELSE [status |-> "returned", via |-> "search", mode |-> mode,
                    text |-> query, called |-> TRUE,
                    vector |-> generate_embedding(Str(Strip(query.v)),
                                                  embedding_dim)]
    /\ UNCHANGED <<searchVars, cacheVars, http, key_calls, storeVars,
                   engineVars, raceVars, embedding_dim, neoVars, lateVars>>

EmbedReturn ==
    /\ emb.status # "idle"
    /\ emb' = NoEmb
    /\ UNCHANGED <<searchVars, cacheVars, http, key_calls, storeVars,
                   engineVars, raceVars, embedding_dim, neoVars, lateVars>>

NextEmbed ==
    \/ \E text \in Texts : GenerateEmbedding(text)
    \/ \E query \in Texts \ {None}, mode \in Modes : SearchEmbeds(query, mode)
    \/ EmbedReturn

SpecEmbed == InitEmbed /\ [][NextEmbed]_vars

-----------------------------------------------------------------------------
(* Neo4jClient.get_stats and the KnowledgeGraphAnalytics queries, called as
   src/test_redis_cache.py calls them *)

StatsMethods == {"get_stats", "top_studied_organisms",
                 "top_investigated_phenomena", "research_gaps_by_system"}

\* the limit the calls pass
StatsLimit == 10

\* the session.run calls one call of the method makes
QueriesOf(method) == IF method = "get_stats" THEN 2 ELSE 1

\* the size of what the method returns, every publication being linked to
\* every organism and phenomenon: the total of nodes for get_stats, the
\* number of rows for the others
RowsOf(method, g) ==
    CASE method = "get_stats" ->
             g.publications + g.organisms + g.phenomena
      [] method = "top_studied_organisms" ->
             IF g.publications = 0 THEN 0 ELSE Min(StatsLimit, g.organisms)
      [] method = "top_investigated_phenomena" ->
             IF g.publications = 0 THEN 0 ELSE Min(StatsLimit, g.phenomena)
      [] method = "research_gaps_by_system" ->
             IF g.publications = 0 THEN 0 ELSE Min(10, g.phenomena)

InitStats ==
    /\ SearchIdle
    /\ REDIS_ENABLED = TRUE
    /\ _cache = "enabled"
    /\ redis_data = {}
    /\ now = 0
    /\ ticks = 0
    /\ call = NoCall
    /\ http = NoHttp
    /\ key_calls = NoKeyCalls
    /\ StoreIdle
    /\ gctx = NoGctx
    /\ task = NoRun
    /\ RaceIdle
    /\ EmbedIdle
    /\ LateIdle
    /\ graph \in [publications : 0..MaxNodes, organisms : 0..MaxNodes,
                  phenomena : 0..MaxNodes]
    /\ neo = NoNeo

\* cache.clear_pattern('neo4j:*') before a measurement
ClearNeo4j ==
    /\ neo.status = "idle"
    /\ redis_data' = CacheClearPattern(_cache, redis_data, <<"neo4j">>, now,
                                       TRUE).data
    /\ neo' = [NoNeo EXCEPT !.cleared = TRUE]
    /\ UNCHANGED <<REDIS_ENABLED, _cache, now, ticks, call>>
    /\ UNCHANGED <<searchVars, http, key_calls, storeVars, engineVars,
                   raceVars, embedVars, graph, lateVars>>

\* one call of a method: it opens a session and runs its queries; neither
\* the method nor its caller reads or writes the cache
StatsCall(method) ==
    /\ neo.status = "idle"
    /\ neo.nth < MaxRepeat \/ neo.method # method
    /\ neo' = [status |-> "returned", cleared |-> neo.cleared,
               method |-> method,
               nth |-> IF neo.method = method THEN neo.nth + 1 ELSE 1,
               queries |-> QueriesOf(method),
               rows |-> RowsOf(method, graph)]
    /\ UNCHANGED <<searchVars, cacheVars, http, key_calls, storeVars,
                   engineVars, raceVars, embedVars, graph, lateVars>>

\* the caller has the result and the time it took
StatsReturn ==
    /\ neo.status = "returned"
    /\ neo' = [neo EXCEPT !.status = "idle", !.queries = 0, !.rows = 0]
    /\ UNCHANGED <<searchVars, cacheVars, http, key_calls, storeVars,
                   engineVars, raceVars, embedVars, graph, lateVars>>

NextStats ==
    \/ ClearNeo4j
    \/ \E method \in StatsMethods : StatsCall(method)
    \/ StatsReturn

SpecStats == InitStats /\ [][NextStats]_vars

-----------------------------------------------------------------------------
(* SessionManager: the tables sessions and messages of src/session_manager.py *)

SessionIds == {"s1", "s2"}
Roles == {"user", "assistant"}

\* what datetime.utcnow() can read: the wall clock is not monotonic, a later
\* reading can equal or precede an earlier one
Readings == {0, 1, 2}

\* INSERT INTO sessions
InsertSession(rows, session_id, service_type, time) ==
    rows \cup {[session_id |-> session_id, service_type |-> service_type,
                created_at |-> time, last_accessed |-> time]}

\* UPDATE sessions SET last_accessed = ? WHERE session_id = ?
Touch(rows, session_id, time) ==
    {IF r.session_id = session_id THEN [r EXCEPT !.last_accessed = time]
                                  ELSE r : r \in rows}

\* add_message: the INSERT INTO messages and the UPDATE of last_accessed
add_message(rows, msgs, session_id, role, content, time) ==
    [sessions |-> Touch(rows, session_id, time),
     messages |-> Append(msgs, [session_id |-> session_id, role |-> role,
                                content |-> content, timestamp |-> time])]

\* the rows of one session, in rowid order
SessionRows(msgs, session_id) ==
    SelectSeq(msgs, LAMBDA m : m.session_id = session_id)

\* one row put into a list ordered by timestamp, behind the rows of the same
\* timestamp: the index on (session_id, timestamp) yields equal timestamps in
\* rowid order
RECURSIVE InsertByTimestamp(_, _)
InsertByTimestamp(sorted, m) ==
    IF sorted = <<>> THEN <<m>>
    ELSE IF sorted[Len(sorted)].timestamp <= m.timestamp
    THEN Append(sorted, m)
    ELSE Append(InsertByTimestamp(SubSeq(sorted, 1, Len(sorted) - 1), m),
                sorted[Len(sorted)])

\* ORDER BY timestamp ASC
RECURSIVE OrderByTimestamp(_)
OrderByTimestamp(rows) ==
    IF rows = <<>> THEN <<>>
    ELSE InsertByTimestamp(OrderByTimestamp(SubSeq(rows, 1, Len(rows) - 1)),
                           rows[Len(rows)])

\* the dict get_history makes of a row
MessageOf(m) == [role |-> m.role, content |-> m.content,
                 timestamp |-> m.timestamp]

get_history(msgs, session_id) ==
    [i \in 1..Len(OrderByTimestamp(SessionRows(msgs, session_id))) |->
        MessageOf(OrderByTimestamp(SessionRows(msgs, session_id))[i])]

get_session_info(rows, session_id) ==
    IF \E r \in rows : r.session_id = session_id THEN "found" ELSE "none"

\* delete_session: both DELETE statements
delete_session(rows, msgs, session_id) ==
    [sessions |-> {r \in rows : r.session_id # session_id},
     messages |-> SelectSeq(msgs, LAMBDA m : m.session_id # session_id)]

InitSession ==
    /\ BaseIdle
    /\ SessIdle
    /\ twice = NoTwice
    /\ cite = NoCite

\* create_session: a fresh uuid4 and its row
CreateSession(session_id) ==
    /\ sop.name = "none"
    /\ ~\E r \in sessions : r.session_id = session_id
    /\ SessionRows(messages, session_id) = <<>>
    /\ sessions' = InsertSession(sessions, session_id, "generic_rag", wall)
    /\ sop' = [NoSop EXCEPT !.name = "create_session",
                            !.session_id = session_id]
    /\ UNCHANGED <<baseVars, twice, cite, messages, wall>>

AddMessage(session_id, role) ==
    /\ sop.name = "none"
    /\ \E r \in sessions : r.session_id = session_id
    /\ Len(messages) < MaxMessages
    /\ sessions' = add_message(sessions, messages, session_id, role, "text",
                               wall).sessions
    /\ messages' = add_message(sessions, messages, session_id, role, "text",
                               wall).messages
    /\ sop' = [NoSop EXCEPT !.name = "add_message", !.session_id = session_id]
    /\ UNCHANGED <<baseVars, twice, cite, wall>>

GetHistory(session_id) ==
    /\ sop.name = "none"
    /\ sop' = [NoSop EXCEPT !.name = "get_history", !.session_id = session_id,
                            !.history = get_history(messages, session_id)]
    /\ UNCHANGED <<baseVars, twice, cite, sessions, messages, wall>>

GetSessionInfo(session_id) ==
    /\ sop.name = "none"
    /\ sop' = [NoSop EXCEPT !.name = "get_session_info",
                            !.session_id = session_id,
                            !.info = get_session_info(sessions, session_id)]
    /\ UNCHANGED <<baseVars, twice, cite, sessions, messages, wall>>

DeleteSession(session_id) ==
    /\ sop.name = "none"
    /\ \E r \in sessions : r.session_id = session_id
    /\ sessions' = delete_session(sessions, messages, session_id).sessions
    /\ messages' = delete_session(sessions, messages, session_id).messages
    /\ sop' = [NoSop EXCEPT !.name = "delete_session",
                            !.session_id = session_id]
    /\ UNCHANGED <<baseVars, twice, cite, wall>>

\* the caller has the result; time passes and the clock reads anything
SessionReturn(reading) ==
    /\ sop.name # "none"
    /\ sop' = NoSop
    /\ wall' = reading
    /\ UNCHANGED <<baseVars, twice, cite, sessions, messages>>

NextSession ==
    \/ \E session_id \in SessionIds : CreateSession(session_id)
    \/ \E session_id \in SessionIds, role \in Roles :
          AddMessage(session_id, role)
    \/ \E session_id \in SessionIds : GetHistory(session_id)
    \/ \E session_id \in SessionIds : GetSessionInfo(session_id)
    \/ \E session_id \in SessionIds : DeleteSession(session_id)
    \/ \E reading \in Readings : SessionReturn(reading)

SpecSession == InitSession /\ [][NextSession]_vars

-----------------------------------------------------------------------------
(* Two runs of _hybrid_search on the same pair of ranked lists *)

\* the sequences over `results` that hold each of its elements once
Arrangements(results) ==
    {p \in [1..Len(results) -> {results[i] : i \in 1..Len(results)}] :
        \A i, j \in 1..Len(results) : p[i] = p[j] => i = j}

\* faulty variant: a sort that is free to put equal scores in any order
AnyDescendingOrder(results) ==
    {p \in Arrangements(results) :
        \A i, j \in 1..Len(p) : i < j => p[i].score >= p[j].score}

\* what sorted(merged.values(), key=score, reverse=True) can return: the
\* sort is stable and a dict keeps insertion order, so there is one outcome
SortOutcomes(results) == {SortedByScore(results)}

\* what one run of the fusion can return for the two lists
FusionOutcomes(semantic_results, fulltext_results, limit, offset) ==
    {Slice(sorted_results, offset, limit) :
        sorted_results \in
            SortOutcomes(Merge(semantic_results \o fulltext_results,
                               semantic_results, fulltext_results, <<>>))}

PmcidSeq(results) == [i \in 1..Len(results) |-> results[i].pmcid]

InitTwice ==
    /\ similarity \in [Docs -> SimLevels \cup {NoVec}]
    /\ \E matching \in SUBSET Docs :
          ts_rank = [d \in Docs |-> IF d \in matching THEN DocRank(d)
                                                    ELSE NoMatch]
    /\ vector_order = <<>>
    /\ spc = "idle"
    /\ request = NoRequest
    /\ response = NoResponse
    /\ store_calls = NoCalls
    /\ CacheIdle
    /\ http = NoHttp
    /\ key_calls = NoKeyCalls
    /\ StoreIdle
    /\ gctx = NoGctx
    /\ task = NoRun
    /\ RaceIdle
    /\ EmbedIdle
    /\ NeoIdle
    /\ SessIdle
    /\ twice = NoTwice
    /\ cite = NoCite

\* the two lists are fetched once and fused twice
FuseTwice(semantic_results, fulltext_results, limit, offset) ==
    \E first, second \in FusionOutcomes(semantic_results, fulltext_results,
                                        limit, offset) :
        twice' = [status |-> "done", semantic_results |-> semantic_results,
                  fulltext_results |-> fulltext_results, limit |-> limit,
                  offset |-> offset, first |-> PmcidSeq(first),
                  second |-> PmcidSeq(second)]

RunTwice(limit, offset, min_similarity) ==
    /\ twice.status = "idle"
    /\ \E order \in VectorOrders(similarity) :
          /\ FuseTwice(_semantic_search(similarity, order, limit * 2, 0,
                                        min_similarity),
                       _fulltext_search(ts_rank, limit * 2, 0), limit, offset)
          /\ vector_order' = order
    /\ UNCHANGED <<similarity, ts_rank, spc, request, response, store_calls>>
    /\ UNCHANGED <<cacheVars, http, key_calls, storeVars, engineVars, raceVars,
                   embedVars, neoVars, sessVars, cite>>

TwiceReturn ==
    /\ twice.status = "done"
    /\ twice' = NoTwice
    /\ vector_order' = <<>>
    /\ UNCHANGED <<similarity, ts_rank, spc, request, response, store_calls>>
    /\ UNCHANGED <<cacheVars, http, key_calls, storeVars, engineVars, raceVars,
                   embedVars, neoVars, sessVars, cite>>

NextTwice ==
    \/ \E limit \in Limits, offset \in Offsets,
          min_similarity \in MinSimilarities :
          RunTwice(limit, offset, min_similarity)
    \/ TwiceReturn

SpecTwice == InitTwice /\ [][NextTwice]_vars

-----------------------------------------------------------------------------
(* Semantic search over similarities on both sides of its two thresholds *)

\* similarities below, just below, at and above 0.7
SemLevels == {30000, 69999, 70000, 90000}

\* min_similarity: 0, the default 0.3 and 0.7
SemThresholds == {0, 30000, 70000}

InitSemantic ==
    /\ similarity \in [Docs -> SemLevels \cup {NoVec}]
    /\ ts_rank = [d \in Docs |-> NoMatch]
    /\ vector_order = <<>>
    /\ spc = "idle"
    /\ request = NoRequest
    /\ response = NoResponse
    /\ store_calls = NoCalls
    /\ CacheIdle
    /\ http = NoHttp
    /\ key_calls = NoKeyCalls
    /\ AuxIdle

NextSemantic ==
    \/ \E limit \in Limits, offset \in Offsets,
          min_similarity \in SemThresholds :
          Search(<<"a", "b">>, "semantic", limit, offset, min_similarity)
    \/ Return

SpecSemantic == InitSemantic /\ [][NextSemantic]_vars

-----------------------------------------------------------------------------
(* SessionManager.clear_old_sessions over the dates of a quarter.  An instant
   is a number of days since the eve of the quarter; every reading of the
   clock is taken at the same time of day. *)

\* the lengths of January, February and March
DaysIn(month) == CASE month = 1 -> 31 [] month = 2 -> 28 [] month = 3 -> 31

LastDay == 90

\* datetime of an instant: its month and its day of the month
DateOf(t) ==
    IF t <= 31 THEN [month |-> 1, day |-> t]
    ELSE IF t <= 59 THEN [month |-> 2, day |-> t - 31]
    ELSE [month |-> 3, day |-> t - 59]

\* the instant of a date
InstantOf(date) ==
    CASE date.month = 1 -> date.day
      [] date.month = 2 -> 31 + date.day
      [] date.month = 3 -> 59 + date.day

\* datetime.replace(day=day): ValueError when the month has no such day
ReplaceDay(date, day) ==
    IF day >= 1 /\ day <= DaysIn(date.month)
    THEN [ok |-> TRUE, date |-> [date EXCEPT !.day = day]]
    ELSE [ok |-> FALSE, date |-> date]

\* clear_old_sessions(days): the cutoff, then the SELECT and the two DELETEs,
\* or the ValueError of replace() before any statement
clear_old_sessions(rows, msgs, days, today) ==
    IF ~ReplaceDay(DateOf(today), DateOf(today).day - days).ok
    THEN [raised |-> TRUE, deleted |-> 0, sessions |-> rows, messages |-> msgs]
    ELSE [raised |-> FALSE,
          deleted |->
              Cardinality({r \in rows : r.last_accessed <
                  InstantOf(ReplaceDay(DateOf(today),
                                       DateOf(today).day - days).date)}),
          sessions |->
              {r \in rows : ~(r.last_accessed <
                  InstantOf(ReplaceDay(DateOf(today),
                                       DateOf(today).day - days).date))},
          messages |->
              SelectSeq(msgs, LAMBDA m :
                  ~\E r \in rows :
                      /\ r.session_id = m.session_id
                      /\ r.last_accessed <
                             InstantOf(ReplaceDay(DateOf(today),
                                 DateOf(today).day - days).date))]

\* the values of `days`: none, one day and the default
DaysArgs == {0, 1, 30}

\* how long before today a session was last accessed
Ages == {0, 1, 2, 30, 31}

\* one message per session, written when the session was last accessed
MessagesOf(rows) ==
    LET row(session_id) == CHOOSE r \in rows : r.session_id = session_id
        msg(session_id) == [session_id |-> session_id, role |-> "user",
                            content |-> "text",
                            timestamp |-> row(session_id).last_accessed]
    IN  (IF \E r \in rows : r.session_id = "s1" THEN <<msg("s1")>> ELSE <<>>)
        \o (IF \E r \in rows : r.session_id = "s2" THEN <<msg("s2")>> ELSE <<>>)

InitSweep ==
    /\ BaseIdle
    /\ twice = NoTwice
    /\ cite = NoCite
    /\ wall \in 1..LastDay
    /\ \E present \in SUBSET SessionIds :
       \E age \in [present -> Ages] :
          /\ \A session_id \in present : wall - age[session_id] >= 1
          /\ sessions = {[session_id |-> session_id,
                          service_type |-> "generic_rag",
                          created_at |-> wall - age[session_id],
                          last_accessed |-> wall - age[session_id]] :
                            session_id \in present}
    /\ messages = MessagesOf(sessions)
    /\ sop = NoSop

ClearOldSessions(days) ==
    /\ sop.name = "none"
    /\ sessions' = clear_old_sessions(sessions, messages, days, wall).sessions
    /\ messages' = clear_old_sessions(sessions, messages, days, wall).messages
    /\ sop' = [NoSop EXCEPT
                  !.name = "clear_old_sessions",
                  !.deleted = clear_old_sessions(sessions, messages, days,
                                                 wall).deleted,
                  !.raised = clear_old_sessions(sessions, messages, days,
                                                wall).raised]
    /\ UNCHANGED <<baseVars, twice, cite, wall>>

\* the caller has the number or the exception
SweepReturn ==
    /\ sop.name # "none"
    /\ sop' = NoSop
    /\ UNCHANGED <<baseVars, twice, cite, sessions, messages, wall>>

NextSweep ==
    \/ \E days \in DaysArgs : ClearOldSessions(days)
    \/ SweepReturn

SpecSweep == InitSweep /\ [][NextSweep]_vars

-----------------------------------------------------------------------------
(* POST /api/search: the handler hybrid_search of src/api_ai.py *)

\* total_pages of the handler
ApiTotalPages(total_count, limit) == (total_count + limit - 1) \div limit

\* The SearchResponse the handler builds from the result of search()
SearchResponse(req, search_result, total_pages) ==
    [query |-> req.query, mode |-> req.mode,
     results |-> search_result.results,
     total_count |-> search_result.total_count, page |-> req.page,
     limit |-> req.limit, total_pages |-> total_pages,
     has_next |-> req.page < total_pages,
     has_previous |-> req.page > 1,
     filters_applied |-> IF req.min_similarity # 30000
                         THEN <<req.min_similarity>> ELSE <<>>]

HandlerReturn(req, out) ==
    [resp |-> SearchResponse(req, out.resp,
                             ApiTotalPages(out.resp.total_count, req.limit)),
     calls |-> out.calls]

\* The handler without a session and without graph context: the results of
\* search() at the offset of the requested page, as a SearchResponse.
hybrid_search(sim, order, rank, req) ==
    HandlerReturn(req, search(sim, order, rank, req.query, req.mode,
                              req.limit, (req.page - 1) * req.limit,
                              req.min_similarity))

\* The decorators of hybrid_search, applied from the bottom: app.post(path)
\* registers the function it is given as the endpoint of the route and
\* returns that function; cache_neo4j_query(prefix, ttl) returns a wrapper of
\* the function it is given.
Coroutine == [name |-> "hybrid_search", cached |-> FALSE]
AppPost(func) == [endpoint |-> func, returned |-> func]
CacheNeo4jQuery(func) == [func EXCEPT !.cached = TRUE]

\* what the route POST /api/search runs, and what the module attribute
\* hybrid_search is bound to
Endpoint == AppPost(Coroutine).endpoint
ModuleAttribute == CacheNeo4jQuery(AppPost(Coroutine).returned)

\* A SearchRequest or a SearchResponse as a Python value: an object, which
\* json.dumps encodes through default=str
Object(x) == [kind |-> "object", v |-> x]

\* The wrapper of the handler called with one request
WrapperCall(req, run, instance, data, time) ==
    async_wrapper(instance, data, time, "search:hybrid", 1800,
                  <<Object(req)>>, <<>>, Object(run.resp), TRUE, TRUE)

ThroughWrapper(run, out) ==
    [resp |-> out.returned,
     calls |-> IF out.invoked = 1 THEN run.calls ELSE NoCalls,
     data |-> out.data]

ServeRun(target, req, run, instance, data, time) ==
    IF ~target.cached
    THEN [resp |-> Object(run.resp), calls |-> run.calls, data |-> data]
    ELSE ThroughWrapper(run, WrapperCall(req, run, instance, data, time))

\* One request served by `target`: [resp, calls, data]
Serve(target, sim, order, rank, req, instance, data, time) ==
    ServeRun(target, req, hybrid_search(sim, order, rank, req), instance, data,
             time)

Pages == 1..MaxPage

SearchRequests ==
    [query : {<<" ", "a", "b">>}, mode : Modes, limit : Limits, page : Pages,
     min_similarity : MinSimilarities]

InitApi ==
    /\ similarity \in [Docs -> SimLevels \cup {NoVec}]
    /\ \E matching \in SUBSET Docs :
          ts_rank = [d \in Docs |-> IF d \in matching THEN DocRank(d)
                                                    ELSE NoMatch]
    /\ vector_order = <<>>
    /\ spc = "idle"
    /\ request = NoRequest
    /\ response = NoResponse
    /\ store_calls = NoCalls
    /\ REDIS_ENABLED = TRUE
    /\ _cache = "enabled"
    /\ redis_data = {}
    /\ now = 0
    /\ ticks = 0
    /\ call = NoCall
    /\ http = NoHttp
    /\ key_calls = NoKeyCalls
    /\ AuxIdle

\* the exchange once the response is out
Answer(status, req, out) ==
    /\ http' = [status |-> status, req |-> req, resp |-> out.resp,
                calls |-> out.calls,
                first_resp |-> IF status = "first" THEN out.resp
                                                   ELSE http.first_resp]
    /\ redis_data' = out.data

\* a client posts a request and gets the response
PostApiSearch(req) ==
    /\ http.status = "idle"
    /\ \E order \in VectorOrders(similarity) :
          /\ CallsOf(req.mode).vector = 0 => order = OrderByPmcid(similarity)
          /\ Answer("first", req, Serve(Endpoint, similarity, order, ts_rank,
                                        req, _cache, redis_data, now))
          /\ vector_order' = order
    /\ UNCHANGED <<similarity, ts_rank, spc, request, response, store_calls>>
    /\ UNCHANGED <<REDIS_ENABLED, _cache, now, ticks, call,
                   key_calls, auxVars>>

\* the client posts the same request again, at once
RepeatPost ==
    /\ http.status = "first"
    /\ \E order \in VectorOrders(similarity) :
          /\ CallsOf(http.req.mode).vector = 0
                 => order = OrderByPmcid(similarity)
          /\ Answer("second", http.req,
                    Serve(Endpoint, similarity, order, ts_rank, http.req,
                          _cache, redis_data, now))
          /\ vector_order' = order
    /\ UNCHANGED <<similarity, ts_rank, spc, request, response, store_calls>>
    /\ UNCHANGED <<REDIS_ENABLED, _cache, now, ticks, call,
                   key_calls, auxVars>>

\* the entries of the cache run out and the client starts over
Forget ==
    /\ http.status = "second"
    /\ http' = NoHttp
    /\ redis_data' = {}
    /\ vector_order' = <<>>
    /\ UNCHANGED <<similarity, ts_rank, spc, request, response, store_calls>>
    /\ UNCHANGED <<REDIS_ENABLED, _cache, now, ticks, call,
                   key_calls, auxVars>>

NextApi ==
    \/ \E req \in SearchRequests : PostApiSearch(req)
    \/ RepeatPost
    \/ Forget

SpecApi == InitApi /\ [][NextApi]_vars

-----------------------------------------------------------------------------
(* POST /api/search with its filters and include_graph_context *)

\* year_from, year_to and journal left out of a request: `if year_from:`
\* takes None and 0 alike
NoYear == 0
NoJournal == ""

\* the publication year and the journal of each document
YearOf(d) == 2018 + d
JournalOf(d) == IF d % 2 = 1 THEN "nature" ELSE "plos"

\* the rows the clauses appended to the WHERE let through
Passing(year_from, year_to, journal) ==
    {d \in Docs : /\ year_from # NoYear => YearOf(d) >= year_from
                  /\ year_to # NoYear => YearOf(d) <= year_to
                  /\ journal # NoJournal => JournalOf(d) = journal}

\* search() with year_from, year_to and journal: the retrievers see the
\* rows that pass
FilteredSearch(sim, order, rank, req) ==
    search([d \in Docs |->
               IF d \in Passing(req.year_from, req.year_to, req.journal)
               THEN sim[d] ELSE NoVec],
           SelectSeq(order, LAMBDA d :
               d \in Passing(req.year_from, req.year_to, req.journal)),
           [d \in Docs |->
               IF d \in Passing(req.year_from, req.year_to, req.journal)
               THEN rank[d] ELSE NoMatch],
           req.query, req.mode, req.limit, (req.page - 1) * req.limit,
           req.min_similarity).resp

\* faulty variant: the page and the filters of the request are used with
\* graph context too
SearchOfRequestPaged(sim, order, rank, req, failing) ==
    GraphContext(FilteredSearch(sim, order, rank, req),
                 req.include_graph_context, failing)

\* the branch on include_graph_context
SearchOfRequest(sim, order, rank, req, failing) ==
    IF req.include_graph_context
    THEN search_with_graph_context(sim, order, rank, req.query, req.mode,
                                   req.limit, TRUE, failing)
    ELSE GraphContext(FilteredSearch(sim, order, rank, req), FALSE, {})

\* filters_applied: name and value of each filter the handler reports
FiltersApplied(req) ==
    {<<"year_from", req.year_from>> : x \in {0} \ {req.year_from}}
    \cup {<<"year_to", req.year_to>> : x \in {0} \ {req.year_to}}
    \cup {<<"journal", req.journal>> : x \in {""} \ {req.journal}}
    \cup {<<"min_similarity", req.min_similarity>> :
             x \in {30000} \ {req.min_similarity}}

\* the response of the handler: the SearchResponse, or the HTTPException 500
\* made of an exception of the search
PostResponse(req, out) ==
    IF out.status = "raised"
    THEN [status_code |-> 500, detail |-> out.exc]
    ELSE [status_code |-> 200] @@
         [SearchResponse(req, out.response,
                         ApiTotalPages(out.response.total_count, req.limit))
             EXCEPT !.filters_applied = FiltersApplied(req)]

\* similarities that differ from one document to the next
SimOf(d) == 20000 + 10000 * d

\* the values of year_from, year_to and journal the requests carry
FilterSets ==
    { [year_from |-> NoYear, year_to |-> NoYear, journal |-> NoJournal],
      [year_from |-> 2020, year_to |-> NoYear, journal |-> NoJournal],
      [year_from |-> NoYear, year_to |-> 2019, journal |-> "plos"],
      [year_from |-> NoYear, year_to |-> NoYear, journal |-> "nature"] }

PostRequests ==
    {[query |-> <<" ", "a", "b">>, mode |-> mode, limit |-> limit,
      page |-> page, min_similarity |-> min_similarity,
      year_from |-> f.year_from, year_to |-> f.year_to,
      journal |-> f.journal, include_graph_context |-> with_graph] :
        mode \in Modes, limit \in Limits, page \in Pages,
        min_similarity \in MinSimilarities, f \in FilterSets,
        with_graph \in BOOLEAN}

InitPost ==
    /\ \E embedded \in SUBSET Docs :
          similarity = [d \in Docs |-> IF d \in embedded THEN SimOf(d)
                                                        ELSE NoVec]
    \* the words of the query are in no document, in all or in all but one
    /\ \E matching \in {{}, Docs, Docs \ {1}} :
          ts_rank = [d \in Docs |-> IF d \in matching THEN DocRank(d)
                                                    ELSE NoMatch]
    /\ vector_order = <<>>
    /\ spc = "idle"
    /\ request = NoRequest
    /\ response = NoResponse
    /\ store_calls = NoCalls
    /\ CacheIdle
    /\ http = NoHttp
    /\ key_calls = NoKeyCalls
    /\ AuxIdle

\* a client without X-Session-ID posts a request and gets the response;
\* `failing` are the documents whose graph lookup raises
PostSearch(req, failing) ==
    /\ http.status = "idle"
    /\ \E order \in VectorOrders(similarity) :
          /\ failing \subseteq
                 IF req.include_graph_context
                 THEN LookedUp(search(similarity, order, ts_rank, req.query,
                                      req.mode, req.limit, 0,
                                      30000).resp.results)
                 ELSE {}
          /\ http' = [NoHttp EXCEPT
                         !.status = "first", !.req = req,
                         !.resp = PostResponse(req,
                                      SearchOfRequest(similarity, order,
                                                      ts_rank, req, failing))]
          /\ vector_order' = order
    /\ UNCHANGED <<similarity, ts_rank, spc, request, response, store_calls>>
    /\ UNCHANGED <<cacheVars, key_calls, auxVars>>

PostReturn ==
    /\ http.status # "idle"
    /\ http' = NoHttp
    /\ vector_order' = <<>>
    /\ UNCHANGED <<similarity, ts_rank, spc, request, response, store_calls>>
    /\ UNCHANGED <<cacheVars, key_calls, auxVars>>

NextPost ==
    \/ \E req \in PostRequests, failing \in Failings : PostSearch(req, failing)
    \/ PostReturn

SpecPost == InitPost /\ [][NextPost]_vars

-----------------------------------------------------------------------------
(* The endpoints that take X-Session-ID: summarize, rag/ask, rag/generic and
   search *)

MaxLog == 4

\* the AI endpoints and the service type each gives its sessions
AiEndpoints == {"summarize", "rag/ask", "rag/generic"}
ServiceType(endpoint) ==
    CASE endpoint = "summarize"   -> "summarizer"
      [] endpoint = "rag/ask"     -> "rag_assistant"
      [] endpoint = "rag/generic" -> "generic_rag"
      [] endpoint = "search"      -> "search"

\* json.dumps(metadata), without default=str: an instance json cannot
\* encode raises TypeError
DumpsPlain(value) ==
    IF value.kind = "object"
    THEN [ok |-> FALSE, exc |-> "TypeError", text |-> None]
    ELSE Dumps(value)

\* get_or_create_session: the row found and touched, or inserted
get_or_create_session(rows, session_id, service_type, time) ==
    IF \E r \in rows : r.session_id = session_id
    THEN [existed |-> TRUE,
          service_type |->
              (CHOOSE r \in rows : r.session_id = session_id).service_type,
          sessions |-> Touch(rows, session_id, time)]
    ELSE [existed |-> FALSE, service_type |-> service_type,
          sessions |-> InsertSession(rows, session_id, service_type, time)]

\* add_message(session_id, 'user', ...) then add_message(session_id,
\* 'assistant', ..., metadata): each call commits on its own; json.dumps of
\* the metadata runs before the INSERT of its call
SaveExchange(rows, msgs, session_id, metadata, time) ==
    IF ~DumpsPlain(metadata).ok
    THEN [raised |-> TRUE, exc |-> DumpsPlain(metadata).exc,
          sessions |-> add_message(rows, msgs, session_id, "user", "text",
                                   time).sessions,
          messages |-> add_message(rows, msgs, session_id, "user", "text",
                                   time).messages]
    ELSE [raised |-> FALSE, exc |-> "",
          sessions |->
              add_message(add_message(rows, msgs, session_id, "user", "text",
                                      time).sessions,
                          add_message(rows, msgs, session_id, "user", "text",
                                      time).messages,
                          session_id, "assistant", "text", time).sessions,
          messages |->
              add_message(add_message(rows, msgs, session_id, "user", "text",
                                      time).sessions,
                          add_message(rows, msgs, session_id, "user", "text",
                                      time).messages,
                          session_id, "assistant", "text", time).messages]

\* metadata of the assistant message of a search: search_result, whose
\* "results" are the SearchResult instances
SearchMetadata(results) ==
    IF results = <<>> THEN [kind |-> "dict", v |-> 0]
    ELSE [kind |-> "object", v |-> Len(results)]

\* summarize_article, ask_rag and ask_generic_rag with X-Session-ID:
\* [status_code, sessions, messages]; service_ok tells whether the service
\* answers
AiHandler(rows, msgs, endpoint, session_id, service_ok, time) ==
    IF /\ get_or_create_session(rows, session_id, ServiceType(endpoint),
                                time).existed
       /\ get_or_create_session(rows, session_id, ServiceType(endpoint),
                                time).service_type # ServiceType(endpoint)
    THEN [status_code |-> 400,
          sessions |-> get_or_create_session(rows, session_id,
                           ServiceType(endpoint), time).sessions,
          messages |-> msgs]
    ELSE IF ~service_ok
    THEN [status_code |-> 500,
          sessions |-> get_or_create_session(rows, session_id,
                           ServiceType(endpoint), time).sessions,
          messages |-> msgs]
    ELSE [status_code |-> 200,
          sessions |->
              SaveExchange(get_or_create_session(rows, session_id,
                               ServiceType(endpoint), time).sessions,
                           msgs, session_id, [kind |-> "dict", v |-> 1],
                           time).sessions,
          messages |->
              SaveExchange(get_or_create_session(rows, session_id,
                               ServiceType(endpoint), time).sessions,
                           msgs, session_id, [kind |-> "dict", v |-> 1],
                           time).messages]

\* hybrid_search with X-Session-ID, `out` being what the search returned or
\* raised: [status_code, sessions, messages]
SearchHandler(rows, msgs, session_id, out, time) ==
    IF out.status = "raised"
    THEN [status_code |-> 500,
          sessions |-> get_or_create_session(rows, session_id, "search",
                                             time).sessions,
          messages |-> msgs]
    ELSE [status_code |->
              IF SaveExchange(get_or_create_session(rows, session_id,
                                  "search", time).sessions,
                              msgs, session_id,
                              SearchMetadata(out.response.results),
                              time).raised
              THEN 500 ELSE 200,
          sessions |->
              SaveExchange(get_or_create_session(rows, session_id, "search",
                                                 time).sessions,
                           msgs, session_id,
                           SearchMetadata(out.response.results),
                           time).sessions,
          messages |->
              SaveExchange(get_or_create_session(rows, session_id, "search",
                                                 time).sessions,
                           msgs, session_id,
                           SearchMetadata(out.response.results),
                           time).messages]

\* the search requests of this part: a lexical search, with or without
\* graph context
ExchangeRequests ==
    {req \in PostRequests :
        /\ req.mode = "fulltext" /\ req.limit = 1 /\ req.page = 1
        /\ req.min_similarity = 30000
        /\ req.year_from = NoYear /\ req.year_to = NoYear
        /\ req.journal = NoJournal}

\* no document has an embedding; the words of the query are in no document
\* or in all
InitExchange ==
    /\ similarity = [d \in Docs |-> NoVec]
    /\ \E matching \in {{}, Docs} :
          ts_rank = [d \in Docs |-> IF d \in matching THEN DocRank(d)
                                                    ELSE NoMatch]
    /\ vector_order = <<>>
    /\ spc = "idle"
    /\ request = NoRequest
    /\ response = NoResponse
    /\ store_calls = NoCalls
    /\ CacheIdle
    /\ http = NoHttp
    /\ key_calls = NoKeyCalls
    /\ AuxIdle

PostAi(endpoint, session_id, service_ok) ==
    /\ http.status = "idle"
    /\ Len(messages) + 2 <= MaxLog
    /\ sessions' = AiHandler(sessions, messages, endpoint, session_id,
                             service_ok, wall).sessions
    /\ messages' = AiHandler(sessions, messages, endpoint, session_id,
                             service_ok, wall).messages
    /\ http' = [NoHttp EXCEPT
                   !.status = "first",
                   !.req = [endpoint |-> endpoint, session_id |-> session_id,
                            found |-> 0],
                   !.resp = [status_code |->
                                AiHandler(sessions, messages, endpoint,
                                          session_id, service_ok,
                                          wall).status_code]]
    /\ UNCHANGED <<searchVars, cacheVars, key_calls, storeVars, engineVars,
                   raceVars, embedVars, neoVars, wall, sop, twice, cite>>

PostSearchInSession(req, session_id, failing) ==
    /\ http.status = "idle"
    /\ Len(messages) + 2 <= MaxLog
    /\ failing \subseteq
           IF req.include_graph_context
           THEN LookedUp(search(similarity, <<>>, ts_rank, req.query, req.mode,
                                req.limit, 0, 30000).resp.results)
           ELSE {}
    /\ sessions' = SearchHandler(sessions, messages, session_id,
                       SearchOfRequest(similarity, <<>>, ts_rank, req,
                                       failing), wall).sessions
    /\ messages' = SearchHandler(sessions, messages, session_id,
                       SearchOfRequest(similarity, <<>>, ts_rank, req,
                                       failing), wall).messages
    /\ http' = [NoHttp EXCEPT
                   !.status = "first",
                   !.req = [endpoint |-> "search", session_id |-> session_id,
                            found |-> Len(SearchOfRequest(similarity, <<>>,
                                              ts_rank, req,
                                              failing).response.results)],
                   !.resp = [status_code |->
                                SearchHandler(sessions, messages, session_id,
                                    SearchOfRequest(similarity, <<>>, ts_rank,
                                                    req, failing),
                                    wall).status_code]]
    /\ UNCHANGED <<searchVars, cacheVars, key_calls, storeVars, engineVars,
                   raceVars, embedVars, neoVars, wall, sop, twice, cite>>

ExchangeReturn ==
    /\ http.status # "idle"
    /\ http' = NoHttp
    /\ UNCHANGED <<searchVars, cacheVars, key_calls, auxVars>>

NextExchange ==
    \/ \E endpoint \in AiEndpoints, session_id \in SessionIds,
          service_ok \in BOOLEAN : PostAi(endpoint, session_id, service_ok)
    \/ \E req \in ExchangeRequests, session_id \in SessionIds,
          failing \in Failings : PostSearchInSession(req, session_id, failing)
    \/ ExchangeReturn

SpecExchange == InitExchange /\ [][NextExchange]_vars

-----------------------------------------------------------------------------
(* GenericRAGAssistant.forward and the module-level citation_tracker.       *)
(*                                                                          *)
(* forward is synchronous.  The tool search_publications runs its search    *)
(* with loop.run_until_complete on the loop that is already running         *)
(* (nest_asyncio): while it waits, the loop runs the other tasks that are   *)
(* ready, the handler of another question among them, and returns to the    *)
(* tool once that handler has returned.  cite.stack holds the questions     *)
(* being answered, the innermost last.                                      *)

Questions == 1..MaxQuestions

\* what the tools are given as pmcid: two identifiers, a number without the
\* prefix and the empty string
Pmc1 == <<"P", "M", "C", "1">>
Pmc2 == <<"P", "M", "C", "2">>
ToolPmcids == {Pmc1, Pmc2, <<"1", "2">>, <<>>}

\* pmcid.startswith('PMC')
StartsWithPMC(pmcid) ==
    Len(pmcid) >= 3 /\ SubSeq(pmcid, 1, 3) = <<"P", "M", "C">>

\* CitationTracker.add_pmcid on the set used_pmcids
add_pmcid(used_pmcids, pmcid) ==
    IF pmcid # <<>> /\ StartsWithPMC(pmcid)
    THEN used_pmcids \cup {pmcid}
    ELSE used_pmcids

\* add_pmcid for each result of a search
AddAll(used_pmcids, pmcids) ==
    used_pmcids \cup {pmcid \in pmcids : add_pmcid({}, pmcid) # {}}

\* what a search finds
SearchFinds == {{}, {Pmc1}, {Pmc2, <<"1", "2">>}}

Top == cite.stack[Len(cite.stack)]

\* the loop can start the handler of a question: nothing runs, or the
\* innermost question waits in run_until_complete
LoopIsFree ==
    IF cite.stack = <<>> THEN TRUE ELSE cite.pc[Top] = "searching"

InitCite ==
    /\ BaseIdle
    /\ SessIdle
    /\ twice = NoTwice
    /\ cite = NoCite

\* forward(question) starts: citation_tracker.reset()
Forward(q) ==
    /\ cite.pc[q] = "idle"
    /\ LoopIsFree
    /\ cite' = [cite EXCEPT
                   !.used_pmcids = {},
                   !.stack = Append(cite.stack, q),
                   !.pc[q] = "running",
                   !.nested = [p \in Questions |->
                                  IF \E i \in 1..Len(cite.stack) :
                                         cite.stack[i] = p
                                  THEN TRUE ELSE cite.nested[p]]]
    /\ UNCHANGED <<baseVars, sessVars, twice>>

\* the agent calls a tool that tracks the pmcid it is given
ToolCall(q, pmcid) ==
    /\ cite.stack # <<>> /\ Top = q
    /\ cite.pc[q] = "running"
    /\ cite' = [cite EXCEPT
                   !.used_pmcids = add_pmcid(cite.used_pmcids, pmcid),
                   !.own[q] = add_pmcid(cite.own[q], pmcid)]
    /\ UNCHANGED <<baseVars, sessVars, twice>>

\* the agent calls search_publications, which waits for its search
SearchPublicationsWaits(q) ==
    /\ cite.stack # <<>> /\ Top = q
    /\ cite.pc[q] = "running"
    /\ cite' = [cite EXCEPT !.pc[q] = "searching"]
    /\ UNCHANGED <<baseVars, sessVars, twice>>

\* run_until_complete returns and the results are tracked
SearchPublicationsTracks(q, found) ==
    /\ cite.stack # <<>> /\ Top = q
    /\ cite.pc[q] = "searching"
    /\ cite' = [cite EXCEPT
                   !.used_pmcids = AddAll(cite.used_pmcids, found),
                   !.own[q] = AddAll(cite.own[q], found),
                   !.pc[q] = "running"]
    /\ UNCHANGED <<baseVars, sessVars, twice>>

\* the agent has its answer: tracked_citations = get_citations(); when the
\* agent raised, the except clause returns no citation
ForwardReturns(q, agent_ok) ==
    /\ cite.stack # <<>> /\ Top = q
    /\ cite.pc[q] = "running"
    /\ cite' = [cite EXCEPT
                   !.citations[q] = IF agent_ok THEN cite.used_pmcids ELSE {},
                   !.pc[q] = "done",
                   !.stack = SubSeq(cite.stack, 1, Len(cite.stack) - 1)]
    /\ UNCHANGED <<baseVars, sessVars, twice>>

\* the client has the answer; the question can be asked again
QuestionAnswered(q) ==
    /\ cite.pc[q] = "done"
    /\ cite' = [cite EXCEPT !.pc[q] = "idle", !.own[q] = {},
                            !.nested[q] = FALSE,
                            !.citations[q] = {}]
    /\ UNCHANGED <<baseVars, sessVars, twice>>

NextCite ==
    \/ \E q \in Questions : Forward(q)
    \/ \E q \in Questions, pmcid \in ToolPmcids : ToolCall(q, pmcid)
    \/ \E q \in Questions : SearchPublicationsWaits(q)
    \/ \E q \in Questions, found \in SearchFinds :
          SearchPublicationsTracks(q, found)
    \/ \E q \in Questions, agent_ok \in BOOLEAN : ForwardReturns(q, agent_ok)
    \/ \E q \in Questions : QuestionAnswered(q)

SpecCite == InitCite /\ [][NextCite]_vars

-----------------------------------------------------------------------------
(* _generate_key called twice *)

KeyPrefixes == {"api:graph:full", "neo4j:stats"}
KeyArgValues == { [kind |-> "int", v |-> 1], [kind |-> "object", v |-> 1] }
KwValues == { [kind |-> "int", v |-> 1], [kind |-> "int", v |-> 2] }

\* tuples of at most n values of S
RECURSIVE TuplesUpTo(_, _)
TuplesUpTo(S, n) ==
    IF n = 0 THEN {<<>>}
    ELSE TuplesUpTo(S, n - 1)
         \cup {Append(t, x) : t \in {u \in TuplesUpTo(S, n - 1) : Len(u) = n - 1},
                              x \in S}

KeyArgs == TuplesUpTo(KeyArgValues, MaxArgs)

\* keyword arguments in the order the caller writes them: distinct names
KeyKwargs ==
    {kw \in TuplesUpTo([name : {KwNames[i] : i \in 1..Len(KwNames)},
                        value : KwValues], Len(KwNames)) :
        \A i, j \in 1..Len(kw) : kw[i].name = kw[j].name => i = j}

InitKey ==
    /\ key_calls = NoKeyCalls
    /\ SearchIdle
    /\ CacheIdle
    /\ http = NoHttp
    /\ AuxIdle

GenerateKey(n, prefix, args, kwargs) ==
    /\ ~key_calls[n].done
    /\ n = 2 => key_calls[1].done
    /\ key_calls' = [key_calls EXCEPT ![n] =
                        [done |-> TRUE, prefix |-> prefix, args |-> args,
                         kwargs |-> kwargs,
                         out |-> _generate_key(prefix, args, kwargs)]]
    /\ UNCHANGED <<searchVars, cacheVars, http, auxVars>>

NextKey ==
    \E n \in {1, 2}, prefix \in KeyPrefixes, args \in KeyArgs,
       kwargs \in KeyKwargs : GenerateKey(n, prefix, args, kwargs)

SpecKey == InitKey /\ [][NextKey]_vars

-----------------------------------------------------------------------------
(* Claims about the search engine (specification SpecSearch) *)

Answered == spc = "done" /\ ~QueryRefused(request.query)
AnsweredHybrid == Answered /\ request.mode = "hybrid"

\* the two ranked lists a hybrid request fuses, as the retrievers return them
SemanticList ==
    _semantic_search(similarity, vector_order, request.limit * 2, 0,
                     request.min_similarity)
LexicalList == _fulltext_search(ts_rank, request.limit * 2, 0)

Pmcids(results) == {results[i].pmcid : i \in 1..Len(results)}

\* C1: a valid query, in every mode, gets at most `limit` results, and the
\* scores of the results are non-increasing by position.
C1_AtMostLimitAndDescending ==
    Answered =>
        /\ Len(response.results) <= request.limit
        /\ \A i, j \in 1..Len(response.results) :
              i < j => response.results[i].score >= response.results[j].score

C1_Witness ==
    /\ AnsweredHybrid
    /\ request.limit >= 2
    /\ Len(response.results) = request.limit
    /\ response.results[1].score > response.results[2].score

\* the sum of 1/(60 + rank) over the lists that hold pmcid, as a fraction
ReciprocalRankSum(pmcid) ==
    LET ranks == {<<"semantic", i>> : i \in {j \in 1..Len(SemanticList) :
                                              SemanticList[j].pmcid = pmcid}}
                 \cup
                 {<<"fulltext", i>> : i \in {j \in 1..Len(LexicalList) :
                                              LexicalList[j].pmcid = pmcid}}
        r1 == CHOOSE r \in ranks : TRUE
        r2 == CHOOSE r \in ranks \ {r1} : TRUE
    IN  IF Cardinality(ranks) = 1
        THEN [num |-> 1, den |-> 60 + r1[2]]
        ELSE [num |-> (60 + r1[2]) + (60 + r2[2]),
              den |-> (60 + r1[2]) * (60 + r2[2])]

\* C2 as stated: the score of a hybrid result is exactly the sum of
\* 1/(60 + rank) over the lists that contain the document.
C2_ScoreIsExactSum ==
    AnsweredHybrid =>
        \A i \in 1..Len(response.results) :
            LET s == ReciprocalRankSum(response.results[i].pmcid)
            IN  response.results[i].score * s.den = 10000 * s.num

\* C2 amended: the score of a hybrid result is that sum rounded to four
\* decimal places: it differs from the sum by at most 0.00005.
C2_ScoreIsRoundedSum ==
    AnsweredHybrid =>
        \A i \in 1..Len(response.results) :
            LET s == ReciprocalRankSum(response.results[i].pmcid)
                diff == response.results[i].score * s.den - 10000 * s.num
            IN  /\ 2 * diff <= s.den
                /\ 2 * diff >= 0 - s.den

\* a document of both lists and a document of one list are both returned
C2_Witness ==
    /\ AnsweredHybrid
    /\ \E i, j \in 1..Len(response.results) :
          /\ response.results[i].pmcid \in Pmcids(SemanticList)
          /\ response.results[i].pmcid \in Pmcids(LexicalList)
          /\ response.results[j].pmcid \in Pmcids(LexicalList)
          /\ response.results[j].pmcid \notin Pmcids(SemanticList)

\* C3: no two results of a hybrid response share a pmcid.
C3_OneResultPerPmcid ==
    AnsweredHybrid =>
        \A i, j \in 1..Len(response.results) :
            response.results[i].pmcid = response.results[j].pmcid => i = j

C3_Witness ==
    /\ AnsweredHybrid
    /\ \E d \in Pmcids(response.results) :
          d \in Pmcids(SemanticList) /\ d \in Pmcids(LexicalList)
    /\ Len(response.results) >= 2

\* D1 is first in the semantic list and not in the lexical one, D2 is first in
\* the lexical list and not in the semantic one
TopOfOneListOnly ==
    /\ AnsweredHybrid
    /\ request.offset = 0
    /\ SemanticList # <<>>
    /\ LexicalList # <<>>
    /\ SemanticList[1].pmcid \notin Pmcids(LexicalList)
    /\ LexicalList[1].pmcid \notin Pmcids(SemanticList)

InBothLists == Pmcids(SemanticList) \cap Pmcids(LexicalList)

\* C4 as stated: D1 and D2 are both among the N results, for every N >= 1 and
\* whatever else the lists hold.
C4_BothTopsReturned ==
    TopOfOneListOnly =>
        /\ SemanticList[1].pmcid \in Pmcids(response.results)
        /\ LexicalList[1].pmcid \in Pmcids(response.results)

\* C4 amended: D1 and D2 are both among the N results when at most N - 2
\* documents are in both lists.
C4_BothTopsReturnedIfRoom ==
    (TopOfOneListOnly /\ Cardinality(InBothLists) + 2 <= request.limit) =>
        /\ SemanticList[1].pmcid \in Pmcids(response.results)
        /\ LexicalList[1].pmcid \in Pmcids(response.results)

C4_Witness ==
    /\ TopOfOneListOnly
    /\ Cardinality(InBothLists) + 2 <= request.limit
    /\ Len(SemanticList) >= 2
    /\ Len(response.results) = request.limit

\* the length of the query between its first and its last non-blank character
StrippedLength(query) ==
    LET inked == {i \in 1..Len(query) : query[i] # " "}
    IN  IF inked = {} THEN 0
        ELSE (CHOOSE hi \in inked : \A i \in inked : i <= hi)
             - (CHOOSE lo \in inked : \A i \in inked : lo <= i) + 1

\* C5: a query that is empty or shorter than 2 once stripped gets the empty
\* well-formed response, and no call reaches the embedding service or a store.
C5_ShortQueryTouchesNothing ==
    (spc = "done" /\ StrippedLength(request.query) < 2) =>
        /\ response.results = <<>>
        /\ response.total_count = 0
        /\ response.page = 1
        /\ response.total_pages = 0
        /\ response.has_next = FALSE
        /\ store_calls.embedding = 0
        /\ store_calls.vector = 0
        /\ store_calls.lexical = 0

C5_Witness ==
    /\ spc = "done"
    /\ Len(request.query) >= 2
    /\ StrippedLength(request.query) < 2
    /\ request.mode = "hybrid"
    /\ response.page = 1

\* C6: page = floor(offset / limit) + 1, total_pages = ceil(total_count / limit)
\* and has_next = (offset + limit < total_count), on the response's total_count.
C6_PaginationFields ==
    Answered =>
        /\ (response.page - 1) * request.limit <= request.offset
        /\ request.offset < response.page * request.limit
        /\ response.total_pages * request.limit >= response.total_count
        /\ (response.total_pages - 1) * request.limit < response.total_count
        /\ response.has_next =
               (request.offset + request.limit < response.total_count)

C6_Witness ==
    /\ Answered
    /\ response.page >= 2
    /\ request.limit >= 2
    /\ response.total_count = 1
    /\ response.total_pages = 1

-----------------------------------------------------------------------------
(* Claims about the cache layer (specification SpecCache) *)

\* a step that runs one wrapped call from its start to its outcome
CallStep == call.status = "idle" /\ call'.status # "idle"

FuncNamed(name) == CHOOSE f \in Funcs \cup {SearchFunc} : f.name = name

\* the ttl the decorator was given, the default standing for "no ttl"
GivenTtl(name) ==
    IF FuncNamed(name).ttl = TtlNone THEN default_ttl ELSE FuncNamed(name).ttl

\* the backend answers every request of the call, and the key, and the result
\* if there is one, can be serialized
HealthyCallStep ==
    /\ CallStep
    /\ _cache' = "enabled"
    /\ call'.get_ok
    /\ call'.set_ok
    /\ \A i \in 1..Len(call'.args) : Dumps(call'.args[i]).ok
    /\ call'.invoked = 1 => Dumps(call'.result).ok

ServedFromCache ==
    /\ call'.status = "returned"
    /\ call'.invoked = 0
    /\ \E e \in Alive(redis_data, call'.key, now) :
          call'.returned = Loads(e.text)
    /\ redis_data' = redis_data

RunOnceAndStored ==
    /\ call'.status = "returned"
    /\ call'.invoked = 1
    /\ call'.returned = call'.result
    /\ \E e \in redis_data' :
          /\ e.key = call'.key
          /\ Loads(e.text) = Loads(Dumps(call'.result).text)
          /\ e.expire_at = now + GivenTtl(call'.func) * ClockHz

\* C7 as stated: when the key holds an unexpired entry the cached value is
\* returned and the wrapped operation is not invoked; otherwise the operation
\* is invoked exactly once, its result stored under the key with the given
\* ttl, and returned.
C7_HitElseRunOnceAndStore ==
    [][HealthyCallStep =>
          IF Alive(redis_data, call'.key, now) # {}
          THEN ServedFromCache
          ELSE RunOnceAndStored]_vars

\* The same contract with the entries that hold JSON null set apart: such an
\* entry is not served, the operation runs again and the entry is rewritten.
C7_ExceptNullEntries ==
    [][HealthyCallStep =>
          IF \E e \in Alive(redis_data, call'.key, now) : e.text.kind # "null"
          THEN ServedFromCache
          ELSE RunOnceAndStored]_vars

\* a failure of the cache layer happened during the last call
NoCacheInstance == _cache = "disabled"
GetFailed == _cache = "enabled" /\ call.key # <<>> /\ ~call.get_ok
SetFailed == _cache = "enabled" /\ call.invoked = 1 /\ ~call.set_ok
ValueNotSerializable ==
    _cache = "enabled" /\ call.invoked = 1 /\ ~Dumps(call.result).ok
ArgumentNotSerializable ==
    \E i \in 1..Len(call.args) : ~Dumps(call.args[i]).ok

PassedThrough ==
    /\ call.status = "returned"
    /\ call.invoked = 1
    /\ call.returned = call.result

\* C10 as stated: whatever fails in the cache layer during a wrapped call
\* (no backend at construction or later, an error in get or in set, a value
\* or an argument that cannot be serialized), the wrapped operation is still
\* invoked, its result is returned, and no exception reaches the caller.
C10_CacheFailuresContained ==
    (/\ call.status # "idle"
     /\ \/ NoCacheInstance
        \/ GetFailed
        \/ SetFailed
        \/ ValueNotSerializable
        \/ ArgumentNotSerializable)
    => PassedThrough

\* The failures that are contained: those of the backend, and a value that
\* json.dumps refuses with a TypeError.
C10_BackendFailuresContained ==
    (/\ call.status # "idle"
     /\ ~ArgumentNotSerializable
     /\ call.invoked = 1 => Dumps(call.result).exc # "ValueError"
     /\ \/ NoCacheInstance
        \/ GetFailed
        \/ SetFailed
        \/ ValueNotSerializable)
    => PassedThrough

-----------------------------------------------------------------------------
(* Claims about POST /api/search (specification SpecApi) *)

\* C8 as stated: a second identical request to POST /api/search within the
\* ttl gets a response equal to the first and makes no further call to the
\* vector store or the lexical store (the graph store is not on this path).
C8_SecondPostServedFromCache ==
    http.status = "second" =>
        /\ http.resp = http.first_resp
        /\ http.calls.vector = 0
        /\ http.calls.lexical = 0

\* What the route does: the second request runs the handler again, with the
\* store calls of the first.
C8_SecondPostRunsHandlerAgain ==
    http.status = "second" =>
        /\ http.calls = CallsOf(http.req.mode)
        /\ redis_data = {}

-----------------------------------------------------------------------------
(* Claims about _generate_key (specification SpecKey) *)

\* the keyword arguments as a dict: the set of its items
AsDict(kwargs) == {kwargs[i] : i \in 1..Len(kwargs)}

BothKeysMade == key_calls[1].done /\ key_calls[2].done

\* C9: the key is '<prefix>:<digest>', and it is the same for the same
\* prefix, the same positional arguments and the same keyword arguments in
\* whatever order they are passed.
C9_KeyIgnoresKeywordOrder ==
    /\ \A n \in {1, 2} :
          key_calls[n].done =>
              /\ key_calls[n].out.ok
              /\ Len(key_calls[n].out.key) = 2
              /\ key_calls[n].out.key[1] = key_calls[n].prefix
    /\ (/\ BothKeysMade
        /\ key_calls[1].prefix = key_calls[2].prefix
        /\ key_calls[1].args = key_calls[2].args
        /\ AsDict(key_calls[1].kwargs) = AsDict(key_calls[2].kwargs))
       => key_calls[1].out.key = key_calls[2].out.key

C9_Witness ==
    /\ BothKeysMade
    /\ key_calls[1].prefix = key_calls[2].prefix
    /\ key_calls[1].args = key_calls[2].args
    /\ Len(key_calls[1].args) = 1
    /\ Len(key_calls[1].kwargs) = 2
    /\ AsDict(key_calls[1].kwargs) = AsDict(key_calls[2].kwargs)
    /\ key_calls[1].kwargs # key_calls[2].kwargs
    /\ key_calls[1].out.key = key_calls[2].out.key

-----------------------------------------------------------------------------
(* Claims about get and set (specification SpecStore) *)

\* a get the backend answered, of a key under which a set with ttl = t
\* stored an entry that no later set replaced
GotAfterSet ==
    /\ op.name = "get"
    /\ last_set[op.key].set
    /\ last_set[op.key].ttl # TtlNone

Elapsed == op.at - last_set[op.key].at

\* what get returns of a stored value: the value read back from its JSON text
ReadBack(value) == Loads(Dumps(value).text)

\* C11 as stated: an entry stored with set(key, value, ttl=t) and not
\* overwritten is returned by get(key) while fewer than t seconds have
\* elapsed, and is a miss once more than t seconds have elapsed.
C11_LiveForTtlSeconds ==
    GotAfterSet =>
        /\ Elapsed < last_set[op.key].ttl * ClockHz
               => op.got = ReadBack(last_set[op.key].value)
        /\ Elapsed > last_set[op.key].ttl * ClockHz => op.got = None

\* The same for t >= 1: set() replaces ttl = 0 by the default ttl.
C11_LiveForPositiveTtl ==
    (GotAfterSet /\ last_set[op.key].ttl >= 1) =>
        /\ Elapsed < last_set[op.key].ttl * ClockHz
               => op.got = ReadBack(last_set[op.key].value)
        /\ Elapsed > last_set[op.key].ttl * ClockHz => op.got = None

-----------------------------------------------------------------------------
(* Claims about clear_pattern (specification SpecClear) *)

\* the live entries whose key matches the pattern
Matching(data, pattern, time) ==
    {e \in data : time <= e.expire_at /\ GlobMatch(pattern, e.key)}

\* a step that is one clear_pattern the backend answered
ClearStep ==
    /\ op' # op
    /\ op'.name = "clear_pattern"
    /\ _cache = "enabled"
    /\ op'.ok

\* C12: clear_pattern removes every key that matches the pattern and returns
\* the number of keys removed, no key that matches is present afterwards, and
\* the next wrapped call whose key matches is a miss that invokes the wrapped
\* operation.
C12_ClearedThenMiss ==
    [][/\ ClearStep =>
             /\ Matching(redis_data', op'.pattern, now) = {}
             /\ op'.deleted =
                    Cardinality({e.key : e \in Matching(redis_data,
                                                        op'.pattern, now)})
             /\ redis_data \ redis_data' = Matching(redis_data, op'.pattern, now)
       /\ (/\ HealthyCallStep
           /\ op.name = "clear_pattern"
           /\ _cache = "enabled"
           /\ op.ok
           /\ GlobMatch(op.pattern, call'.key))
          => /\ call'.hit = FALSE
             /\ call'.invoked = 1]_vars

\* a search call follows a clear_pattern that removed its key and left the
\* other keys alone: it has run the operation and stored the result again
C12_Witness ==
    /\ call.status = "returned"
    /\ call.func = "hybrid_search"
    /\ call.cleared = 1
    /\ call.invoked = 1
    /\ call.stored
    /\ Cardinality(redis_data) = 3

-----------------------------------------------------------------------------
(* Claims about search_with_graph_context (specification SpecGraph) *)

\* the call asked for related entities and the lookup of one result failed
LookupFailed ==
    /\ gctx.status # "idle"
    /\ gctx.include_related
    /\ gctx.failing # {}

\* the results search() gave the call
GraphResults ==
    search(similarity, vector_order, ts_rank, gctx.query, gctx.mode,
           gctx.limit, 0, 30000).resp.results

\* C13 as stated: a failure of the graph-store lookup for one result does not
\* fail the search: the response is returned, that result is left without
\* enrichment, and the lookups for the remaining results are still made.
C13_LookupFailureSkipped ==
    LookupFailed =>
        /\ gctx.status = "returned"
        /\ gctx.response.results = GraphResults
        /\ gctx.enriched = Pmcids(GraphResults) \ gctx.failing
        /\ {gctx.lookups[i] : i \in 1..Len(gctx.lookups)} = Pmcids(GraphResults)

\* What the loop does: the first lookup that raises ends the call, the
\* exception reaches the caller and the results after it are not looked up.
C13_LookupFailureRaises ==
    LookupFailed =>
        /\ gctx.status = "raised"
        /\ gctx.lookups # <<>>
        /\ gctx.lookups[Len(gctx.lookups)] \in gctx.failing
        /\ gctx.closed

-----------------------------------------------------------------------------
(* Claims about the steps of search() (specification SpecRun) *)

\* the steps give the response search() gives when no retriever fails
RunAgreesWithSearch ==
    (task.pc = "done" /\ task.status = "returned") =>
        task.response = search(similarity, vector_order, ts_rank, task.query,
                              task.mode, task.limit, 0,
                              task.min_similarity).resp

\* a hybrid call is over and exactly one of its retrievers failed
OneRetrieverFailed ==
    /\ task.pc = "done"
    /\ task.mode = "hybrid"
    /\ (task.semantic = "raised") # (task.fulltext = "raised")

\* the rows of the retriever that did not fail
Surviving ==
    IF task.semantic = "raised"
    THEN Pmcids(_fulltext_search(ts_rank, task.limit * 2, 0))
    ELSE Pmcids(task.semantic_results)

\* C14 as stated: in hybrid mode, when exactly one of the two retrievers
\* fails or times out, search() returns the results of the surviving
\* retriever; only a single-retriever mode propagates the failure.
C14_SurvivorReturned ==
    /\ OneRetrieverFailed =>
           /\ task.status = "returned"
           /\ Pmcids(task.response.results) \subseteq Surviving
    /\ (task.pc = "done" /\ task.mode # "hybrid"
            /\ "raised" \in {task.semantic, task.fulltext})
           => task.status = "raised"

\* What search() does: in every mode the failure of a retriever leaves
\* search() as that exception, and after a semantic failure the lexical
\* retriever is not called.
C14_FailurePropagates ==
    (task.pc = "done" /\ "raised" \in {task.semantic, task.fulltext}) =>
        /\ task.status = "raised"
        /\ task.exc \in RetrieverErrors
        /\ task.response = NoResponse
        /\ task.semantic = "raised" => task.fulltext = "idle"

\* C15 as stated: in hybrid mode the semantic and the lexical call are
\* issued concurrently, so that while the semantic call is in flight the
\* lexical call has been started too, and the fusion begins once both have
\* completed.
C15_IssuedConcurrently ==
    /\ (task.mode = "hybrid" /\ task.semantic = "started")
           => task.fulltext = "started"
    /\ (task.mode = "hybrid" /\ task.status = "returned"
            /\ ~QueryRefused(task.query))
           => task.semantic = "done" /\ task.fulltext = "done"

\* What _hybrid_search does: the lexical call is issued only after the
\* semantic call has completed, the two are never in flight together, and
\* the fusion follows the completion of both.
C15_IssuedInSequence ==
    /\ ~(task.semantic = "started" /\ task.fulltext = "started")
    /\ (task.mode = "hybrid" /\ task.fulltext # "idle")
           => task.semantic = "done"
    /\ (task.mode = "hybrid" /\ task.status = "returned"
            /\ ~QueryRefused(task.query))
           => task.semantic = "done" /\ task.fulltext = "done"

-----------------------------------------------------------------------------
(* Claims about concurrent wrapped calls on one key (specification SpecRace) *)

\* C16: under every interleaving of concurrent wrapped calls on one key,
\* each call returns either the result of its own run of the operation or a
\* value an earlier set stored whole, never a mixture; every caller that
\* misses runs the operation, also while another caller's run is in flight;
\* and the entry holds the value of the last set that reached the backend.
C16_RacesAreBenign ==
    /\ \A c \in Callers :
          callers[c].pc = "returned" =>
              \/ /\ callers[c].invoked = 1
                 /\ ~callers[c].hit
                 /\ callers[c].returned = callers[c].result
              \/ /\ callers[c].invoked = 0
                 /\ callers[c].hit
                 /\ \E v \in puts : callers[c].returned = ReadBack(v)
    /\ \A c \in Callers :
          (callers[c].pc # "idle" /\ ~callers[c].hit) => callers[c].invoked = 1
    /\ last_put.set =>
          /\ RedisGet(redis_data, RaceKey, now).found
          /\ RedisGet(redis_data, RaceKey, now).text =
                 Dumps(last_put.value).text
          /\ Cardinality({e \in redis_data : e.key = RaceKey}) = 1

\* two callers missed while the other's run was in flight, their runs gave
\* different results, and the entry holds the one stored last
C16_Witness ==
    /\ \A c \in Callers : callers[c].pc = "returned"
    /\ callers[1].overlapped /\ callers[2].overlapped
    /\ callers[1].invoked = 1 /\ callers[2].invoked = 1
    /\ callers[1].result = [kind |-> "int", v |-> 8]
    /\ callers[2].result = [kind |-> "int", v |-> 7]
    /\ last_put = [set |-> TRUE, value |-> [kind |-> "int", v |-> 8], by |-> 1]
    /\ CacheGet(_cache, redis_data, RaceKey, now, TRUE) = [kind |-> "int", v |-> 8]

\* C17 as stated: caching is transparent: the value a later hit returns
\* equals the value v the operation returned on the miss that stored the
\* entry, also when v is a tuple, an object or another value that is not
\* plain JSON.
C17_HitEqualsMissValue ==
    \A c \in Callers :
        (callers[c].pc = "returned" /\ callers[c].hit) =>
            callers[c].returned = callers[c].origin

\* What a hit returns: the value json gives back for the text it stored,
\* which is v itself when v is plain JSON and a list for a tuple.
C17_HitIsReadBack ==
    \A c \in Callers :
        (callers[c].pc = "returned" /\ callers[c].hit) =>
            /\ callers[c].returned = ReadBack(callers[c].origin)
            /\ callers[c].origin.kind = "int"
                   => callers[c].returned = callers[c].origin

-----------------------------------------------------------------------------
(* Claims about the default ttl (specification SpecStore) *)

\* the default ttl the module's docstring gives for CACHE_TTL, in seconds
DocumentedTtl == 3600

\* a get of a key whose last set gave no ttl
GotAfterDefaultSet ==
    /\ op.name = "get"
    /\ last_set[op.key].set
    /\ last_set[op.key].ttl = TtlNone

\* C18 as stated: with CACHE_TTL unset, an entry stored without an explicit
\* ttl expires after the documented default of 3600 seconds: it is returned
\* before and is a miss after.
C18_DefaultIsDocumented ==
    GotAfterDefaultSet =>
        /\ Elapsed < DocumentedTtl * ClockHz
               => op.got = ReadBack(last_set[op.key].value)
        /\ Elapsed > DocumentedTtl * ClockHz => op.got = None

\* What the constructor does: the default is 36000 seconds, and the entry
\* is still returned after the documented 3600 seconds.
C18_DefaultIsTenHours ==
    GotAfterDefaultSet =>
        (Elapsed < default_ttl * ClockHz
             => op.got = ReadBack(last_set[op.key].value))

-----------------------------------------------------------------------------
(* Claims about generate_embedding (specification SpecEmbed) *)

ZeroVector == [i \in 1..embedding_dim |-> 0]

\* C19: generate_embedding(text) does not fail on degenerate input and
\* always returns exactly embedding_dim components; an empty text or one
\* whose stripped length is below 10 gives the zero vector, so a query that
\* passes the validation of search() with a stripped length of 2 to 9 is
\* searched in semantic mode with the zero vector.
C19_ShortTextZeroVector ==
    /\ emb.called =>
          /\ emb.status = "returned"
          /\ Len(emb.vector) = embedding_dim
          /\ (emb.via = "direct"
                /\ (emb.text.kind = "None"
                       \/ Len(Strip(emb.text.v)) < MinEmbedChars))
                 => emb.vector = ZeroVector
    /\ (emb.via = "search" /\ emb.mode = "semantic"
          /\ Len(Strip(emb.text.v)) >= 2
          /\ Len(Strip(emb.text.v)) < MinEmbedChars)
          => emb.called /\ emb.vector = ZeroVector

\* a semantic search of a padded nine-letter query used the zero vector
C19_Witness ==
    /\ emb.via = "search"
    /\ emb.mode = "semantic"
    /\ emb.called
    /\ Len(emb.text.v) >= MinEmbedChars
    /\ Len(Strip(emb.text.v)) = MinEmbedChars - 1
    /\ emb.vector = ZeroVector

-----------------------------------------------------------------------------
(* Claims about the statistics methods (specification SpecStats) *)

\* C20 as stated: after cache.clear_pattern('neo4j:*') the first call of
\* Neo4jClient.get_stats() (and of top_studied_organisms(limit=10),
\* top_investigated_phenomena(limit=10), research_gaps_by_system()) is a
\* miss that runs the Neo4j query, and the second identical call is a hit
\* that runs no Neo4j query.
C20_SecondCallRunsNoQuery ==
    (neo.status = "returned" /\ neo.cleared) =>
        /\ neo.nth = 1 => neo.queries >= 1
        /\ neo.nth = 2 => neo.queries = 0

\* What the methods do: every call runs its queries, the second as the
\* first, and nothing is stored in the cache.
C20_EveryCallRunsItsQueries ==
    neo.status = "returned" =>
        /\ neo.queries = QueriesOf(neo.method)
        /\ neo.rows = RowsOf(neo.method, graph)
        /\ redis_data = {}

-----------------------------------------------------------------------------
(* Claims about SessionManager (specification SpecSession) *)

\* the messages added to a session, as get_history shows one, in the order
\* of their insertion
AddedTo(session_id) ==
    [i \in 1..Len(SessionRows(messages, session_id)) |->
        MessageOf(SessionRows(messages, session_id)[i])]

\* C21 as stated: after any sequence of add_message calls get_history
\* returns exactly the messages added to the session in the order they were
\* added, and after delete_session get_session_info returns None and
\* get_history returns no message.
C21_HistoryInInsertionOrder ==
    /\ sop.name = "get_history" => sop.history = AddedTo(sop.session_id)
    /\ (sop.name = "get_history"
          /\ ~\E r \in sessions : r.session_id = sop.session_id)
          => sop.history = <<>>
    /\ (sop.name = "get_session_info"
          /\ ~\E r \in sessions : r.session_id = sop.session_id)
          => sop.info = "none"

\* What get_history returns: the session's messages ordered by the clock
\* reading taken when each was added, which is the order of insertion when
\* no reading precedes an earlier one.
C21_HistoryInTimestampOrder ==
    /\ sop.name = "get_history" =>
          /\ Len(sop.history) = Len(AddedTo(sop.session_id))
          /\ \A i \in 1..Len(sop.history) :
                \E j \in 1..Len(sop.history) :
                    sop.history[i] = AddedTo(sop.session_id)[j]
          /\ \A i, j \in 1..Len(sop.history) :
                i < j => sop.history[i].timestamp <= sop.history[j].timestamp
          /\ (\A i, j \in 1..Len(sop.history) :
                 i < j => AddedTo(sop.session_id)[i].timestamp
                              <= AddedTo(sop.session_id)[j].timestamp)
                => sop.history = AddedTo(sop.session_id)
    /\ (sop.name = "get_history"
          /\ ~\E r \in sessions : r.session_id = sop.session_id)
          => sop.history = <<>>
    /\ (sop.name = "get_session_info"
          /\ ~\E r \in sessions : r.session_id = sop.session_id)
          => sop.info = "none"

-----------------------------------------------------------------------------
(* Further claims about the search engine (specification SpecSearch) *)

\* the fused, deduplicated and sorted list of the two windows
FusedList ==
    SortedByScore(Merge(SemanticList \o LexicalList, SemanticList,
                        LexicalList, <<>>))

\* the rows each retriever would rank for the request, whatever the window
AllSemantic ==
    _semantic_search(similarity, vector_order, NDocs, 0,
                     request.min_similarity)
AllLexical == _fulltext_search(ts_rank, NDocs, 0)

\* C22: in hybrid mode, whatever offset and limit the caller passes, each
\* retriever is asked for its first 2 x limit rows (offset 0), and the
\* caller's offset and limit are applied only afterwards, as the slice
\* [offset, offset + limit) of the fused, deduplicated and sorted list.
C22_PagedAfterFusion ==
    AnsweredHybrid =>
        /\ SemanticList = SubSeq(AllSemantic, 1,
                                 Min(2 * request.limit, Len(AllSemantic)))
        /\ LexicalList = SubSeq(AllLexical, 1,
                                Min(2 * request.limit, Len(AllLexical)))
        /\ Len(response.results) =
               Min(request.limit,
                   IF Len(FusedList) > request.offset
                   THEN Len(FusedList) - request.offset ELSE 0)
        /\ \A i \in 1..Len(response.results) :
               response.results[i] = FusedList[request.offset + i]

\* a second page of one result: the second of a fused list of three
C22_Witness ==
    /\ AnsweredHybrid
    /\ request.offset = 1
    /\ request.limit = 1
    /\ Len(FusedList) >= 3
    /\ Len(response.results) = 1
    /\ response.results[1] = FusedList[2]
    /\ SemanticList[1].pmcid # response.results[1].pmcid

-----------------------------------------------------------------------------
(* Claims about repeated fusion (specification SpecTwice) *)

\* the fused documents of the two lists, before the slice
TwiceMerged ==
    Merge(twice.semantic_results \o twice.fulltext_results,
          twice.semantic_results, twice.fulltext_results, <<>>)

-----------------------------------------------------------------------------
(* Claims about semantic search (specification SpecSemantic) *)

\* the documents the threshold lets through
Qualifying ==
    {d \in Docs : similarity[d] # NoVec
                  /\ similarity[d] > request.min_similarity}

\* C24: every result of semantic search comes from a document that has a
\* stored vector and whose similarity is strictly greater than
\* min_similarity; the threshold is applied before the ordering and before
\* LIMIT/OFFSET, so that the results are the window [offset, offset + limit)
\* of the qualifying documents by descending similarity; match_type is
\* 'similar' below 0.7 and 'highly_similar' otherwise.
C24_ThresholdThenWindow ==
    (Answered /\ request.mode = "semantic") =>
        /\ \A i \in 1..Len(response.results) :
              LET d == response.results[i].pmcid
              IN  /\ d \in Qualifying
                  /\ response.results[i].match_type =
                         (IF similarity[d] < 70000 THEN "similar"
                                                   ELSE "highly_similar")
                  /\ Cardinality({e \in Qualifying :
                                     similarity[e] > similarity[d]})
                         <= request.offset + i - 1
                  /\ Cardinality({e \in Qualifying :
                                     similarity[e] >= similarity[d]})
                         >= request.offset + i
        /\ Len(response.results) =
               Min(request.limit,
                   IF Cardinality(Qualifying) > request.offset
                   THEN Cardinality(Qualifying) - request.offset ELSE 0)
        /\ \A i, j \in 1..Len(response.results) :
              response.results[i].pmcid = response.results[j].pmcid => i = j

\* a second page whose one result lies just below 0.7, behind a document at
\* 0.7, a third document at the threshold being left out
C24_Witness ==
    /\ Answered
    /\ request.mode = "semantic"
    /\ request.min_similarity = 30000
    /\ request.offset = 1
    /\ Len(response.results) = 1
    /\ response.results[1].match_type = "similar"
    /\ similarity[response.results[1].pmcid] = 69999
    /\ \E d \in Docs : similarity[d] = 30000
    /\ \E d \in Docs : similarity[d] = 70000

-----------------------------------------------------------------------------
(* Claims about clear_old_sessions (specification SpecSweep) *)

SweepStep == sop.name = "none" /\ sop'.name = "clear_old_sessions"

\* the sessions last accessed more than `days` days before now
OlderThan(days) == {r \in sessions : r.last_accessed < wall - days}

\* a step that deletes exactly the sessions older than `days` days with
\* their messages and returns their number
Sweeps(days) ==
    /\ ~sop'.raised
    /\ sop'.deleted = Cardinality(OlderThan(days))
    /\ sessions' = sessions \ OlderThan(days)
    /\ messages' = SelectSeq(messages, LAMBDA m :
                      ~\E r \in OlderThan(days) : r.session_id = m.session_id)

\* C25 as stated: clear_old_sessions(days) deletes every session last
\* accessed more than `days` days before now with all its messages, leaves
\* the others unchanged and returns the number deleted, on every calendar
\* date and for every days >= 0, the default 30 included.
C25_SweepsOnEveryDate ==
    [][SweepStep => \E days \in DaysArgs : Sweeps(days)]_vars

\* What clear_old_sessions does: it sweeps when the day of the month is
\* greater than `days`, and otherwise raises before any statement and leaves
\* both tables as they were.
C25_SweepsLateInTheMonth ==
    [][SweepStep =>
          \/ \E days \in DaysArgs : DateOf(wall).day > days /\ Sweeps(days)
          \/ /\ sop'.raised
             /\ sop'.deleted = 0
             /\ sessions' = sessions
             /\ messages' = messages
             /\ \E days \in DaysArgs : DateOf(wall).day <= days]_vars

-----------------------------------------------------------------------------
(* Claims about total_count (specification SpecSearch) *)

\* the request of POST /api/search that asks search() for this page
PageRequest ==
    [query |-> request.query, mode |-> request.mode, limit |-> request.limit,
     page |-> (request.offset \div request.limit) + 1,
     min_similarity |-> request.min_similarity]

\* the response of POST /api/search built from the response of search()
ApiResponse == HandlerReturn(PageRequest, [resp |-> response,
                                           calls |-> store_calls]).resp

\* C26: for a valid query, limit >= 1 and offset >= 0, total_count is the
\* number of results of the returned page, so that total_count <= limit,
\* total_pages is 0 or 1 and has_next is false; has_next of POST /api/search,
\* page < total_pages on that total_count, is false too.
C26_TotalCountIsPageLength ==
    Answered =>
        /\ response.total_count = Len(response.results)
        /\ response.total_count <= request.limit
        /\ response.total_pages \in {0, 1}
        /\ ~response.has_next
        /\ request.offset % request.limit = 0 =>
              /\ ApiResponse.total_count = Len(ApiResponse.results)
              /\ ApiResponse.total_pages \in {0, 1}
              /\ ~ApiResponse.has_next

\* a full first page of a lexical search while more documents match
C26_Witness ==
    /\ Answered
    /\ request.mode = "fulltext"
    /\ request.offset = 0
    /\ Cardinality({d \in Docs : ts_rank[d] # NoMatch}) > request.limit
    /\ response.total_count = request.limit
    /\ response.total_pages = 1
    /\ ~response.has_next
    /\ ~ApiResponse.has_next

-----------------------------------------------------------------------------
(* Claims about results Python takes as false (specification SpecFalsy) *)

\* the text of the unexpired entry under the key of the call being made
EntryTexts == {e.text : e \in Alive(redis_data, call'.key, now)}

\* C27: a wrapped operation whose result is None is never served from the
\* cache: each call invokes the operation again, although each such call
\* stores an entry; every other JSON value (0, false, the empty list, dict
\* and string) is served from the cache on the second call.
C27_OnlyNoneIsNotServed ==
    [][CallStep =>
          /\ call'.status = "returned"
          /\ EntryTexts \subseteq {[kind |-> "null", v |-> 0]} =>
                /\ call'.invoked = 1
                /\ call'.returned = call'.result
                /\ \E e \in redis_data' :
                      /\ e.key = call'.key
                      /\ e.text = Dumps(call'.result).text
          /\ \A text \in EntryTexts \cap FalsyValues :
                /\ call'.hit
                /\ call'.invoked = 0
                /\ call'.returned = text
                /\ redis_data' = redis_data]_vars

\* a call answered 0 from the cache while another operation's entry holds
\* null
C27_Witness ==
    /\ call.status = "returned"
    /\ call.hit
    /\ call.invoked = 0
    /\ call.returned = [kind |-> "int", v |-> 0]
    /\ \E e \in redis_data : e.key # call.key /\ e.text.kind = "null"

-----------------------------------------------------------------------------
(* Claims about include_graph_context (specification SpecPost) *)

GraphAnswered ==
    /\ http.status = "first"
    /\ http.req.include_graph_context
    /\ http.resp.status_code = 200

\* what search(query, mode, limit) returns: offset 0, min_similarity 0.3,
\* no filter
DefaultSearch ==
    search(similarity, vector_order, ts_rank, http.req.query, http.req.mode,
           http.req.limit, 0, 30000).resp

-----------------------------------------------------------------------------
(* Claims about the message log (specification SpecExchange) *)

\* the number of messages of a role a session holds
CountOf(msgs, session_id, role) ==
    Len(SelectSeq(msgs, LAMBDA m : m.session_id = session_id /\ m.role = role))

\* C29 as stated: after any sequence of requests carrying X-Session-ID to
\* summarize, rag/ask, rag/generic and search, succeeding or failing, each
\* session holds as many assistant messages as user messages: a request
\* records both or neither.
C29_CompleteExchanges ==
    \A session_id \in SessionIds :
        CountOf(messages, session_id, "assistant")
            = CountOf(messages, session_id, "user")

ExchangeStep == http.status = "idle" /\ http'.status = "first"

\* the roles of the messages a step appends
RolesAdded ==
    [i \in 1..(Len(messages') - Len(messages)) |->
        messages'[Len(messages) + i].role]

\* What the endpoints do: a request that is answered 200 records both
\* messages; one that fails records none, except a search that found at least
\* one result, which records the user message and is answered 500.  A search
\* is answered 200 only when it found nothing.
C29_SearchLeavesUserMessage ==
    [][ExchangeStep =>
          /\ SubSeq(messages', 1, Len(messages)) = messages
          /\ \/ /\ http'.resp.status_code = 200
                /\ RolesAdded = <<"user", "assistant">>
                /\ http'.req.found = 0
             \/ /\ http'.resp.status_code # 200
                /\ RolesAdded = <<>>
                /\ http'.req.found = 0
             \/ /\ http'.resp.status_code = 500
                /\ http'.req.endpoint = "search"
                /\ http'.req.found > 0
                /\ RolesAdded = <<"user">>]_vars

-----------------------------------------------------------------------------
(* Claims about the citation tracker (specification SpecCite) *)

\* C30 as stated: the citations forward(question) returns contain, of the
\* tracked PMCIDs, only those tracked by tool calls made while answering that
\* same question, under every interleaving of several questions.
C30_CitationsOfOwnQuestion ==
    \A q \in Questions :
        cite.pc[q] = "done" => cite.citations[q] \subseteq cite.own[q]

\* What forward returns: the PMCIDs its own tool calls tracked when no other
\* question started while it was being answered, and otherwise PMCIDs that
\* some question being answered tracked.
C30_OwnCitationsWhenAlone ==
    \A q \in Questions :
        cite.pc[q] = "done" =>
            /\ ~cite.nested[q] =>
                  \/ cite.citations[q] = cite.own[q]
                  \/ cite.citations[q] = {}
            /\ cite.citations[q] \subseteq {Pmc1, Pmc2}

====
